---- MODULE Spec2Model ----
(***************************************************************************)
(* A model of the email-shamer backend: the in-memory vote ledger          *)
(* (IpBlockerService), the TTL cache (CacheService), the registry service  *)
(* over the document store (DomainRegistryService / FirebaseService) and   *)
(* the HTTP handlers of DomainsController.                                  *)
(*                                                                         *)
(* Time is counted in ticks, TicksPerMinute ticks to the minute, so that   *)
(* a TTL given in minutes may be fractional (1 tick = 1/TicksPerMinute     *)
(* minute).                                                                *)
(***************************************************************************)
EXTENDS Integers, Sequences, FiniteSets, TLC

VARIABLES
    voteRestrictions, \* IpBlockerService.voteRestrictions: Set<string>, in insertion order
    recorded,         \* history: the (ip, domain) pairs passed to recordVote since the last clear
    cache,            \* CacheService.cache: Map<string, CacheEntry>
    now,              \* the wall clock (new Date()), in ticks
    ticks,            \* how many times the clock has advanced
    setInfo,          \* history: per cached key, when it was last set and with which TTL
    ret,              \* the last completed service call and what it returned
    call,             \* the getOrSet calls in flight, per caller
    computeCalls,     \* history: computeFn invocations made by each caller's current getOrSet
    storage,          \* the Firestore 'domains' collection: domain -> DomainDocument
    req,              \* the HTTP requests in flight, per request slot
    started,          \* how many HTTP requests have been started
    accepted,         \* history: per (ip, domain), upvote requests answered success:true
    increments,       \* history: per (ip, domain), committed upvote increments
    sortIn,           \* the list handed to the registry sort
    sortOut,          \* the list GET /registry returned
    base,             \* history: per stored domain, the upvote count its document started with
    returned,         \* history: per stored domain, the counts incrementUpvotes has returned
    ui                \* the browser: the state of the page's React components

ledgerVars == <<voteRestrictions, recorded>>
cacheVars  == <<cache, now, ticks, setInfo, call, computeCalls>>
sysVars    == <<storage, req, started, accepted, increments>>
sortVars   == <<sortIn, sortOut>>
regVars    == <<base, returned>>
vars == <<voteRestrictions, recorded, cache, now, ticks, setInfo, ret, call,
          computeCalls, storage, req, started, accepted, increments, sortIn, sortOut,
          base, returned, ui>>

---------------------------------------------------------------------------
(* Bounds of the model *)

TicksPerMinute == 2   \* clock resolution
MaxTicks == 2         \* clock advances per behaviour
MaxVotes == 3         \* recordVote calls per behaviour of the ledger
MaxRequests == 2      \* HTTP requests started per behaviour
MaxLen == 3           \* length of a registry listing
MaxCount == 2         \* largest upvote count of a listed entry
MaxStamp == 2         \* latest lastChecked instant of a listed entry
MaxCalls == 2         \* registry service calls started per behaviour
MaxHeaderLen == 2     \* pieces of an X-Forwarded-For header value
MaxSegments == 2      \* ';'-separated segments after the first one of a DMARC record
MaxAddresses == 2     \* reporting addresses of a policy
MaxDomainLen == 4     \* pieces of a domain name

(* Program constants *)

defaultTtlMinutes == 60

---------------------------------------------------------------------------
(* Helpers *)

Range(s) == {s[i] : i \in 1..Len(s)}

NoRet == [op |-> "none"]

\* no component mounted
NoUi == [page |-> "none"]

---------------------------------------------------------------------------
(* IpBlockerService *)

LedgerIps == {"::1", "::1:a", "10.0.0.1"}
LedgerDomains == {"b.com", "a:b.com", "a.com"}

createVoteKey(ipAddress, domain) == ipAddress \o ":" \o domain

\* (mutant) Array.prototype.push in place of Set.prototype.add
SetAddPush(s, key) == Append(s, key)

\* Set.prototype.add on a set kept in insertion order
SetAdd(s, key) == IF key \in Range(s) THEN s ELSE Append(s, key)

SetHas(s, key) == key \in Range(s)

hasVoted(s, ipAddress, domain) == SetHas(s, createVoteKey(ipAddress, domain))

recordVote(s, ipAddress, domain) == SetAdd(s, createVoteKey(ipAddress, domain))

getVoteCount(s) == Len(s)

RecordVote(ip, d) ==
    /\ Len(voteRestrictions) < MaxVotes
    /\ voteRestrictions' = recordVote(voteRestrictions, ip, d)
    /\ recorded' = recorded \cup {<<ip, d>>}
    /\ ret' = [op |-> "recordVote", ip |-> ip, domain |-> d,
               before |-> voteRestrictions,
               repeated |-> <<ip, d>> \in recorded]
    /\ UNCHANGED <<ui, cacheVars, sysVars, sortVars, regVars>>

ClearAllVotes ==
    /\ voteRestrictions' = <<>>
    /\ recorded' = {}
    /\ ret' = [op |-> "clearAllVotes"]
    /\ UNCHANGED <<ui, cacheVars, sysVars, sortVars, regVars>>

---------------------------------------------------------------------------
(* CacheService *)

\* JavaScript values a caller may cache; the first five are falsy
JsNull == "null"
JsValues == {JsNull, "undefined", "0", "", "false", "obj"}
Truthy(v) == v \notin {JsNull, "undefined", "0", "", "false"}

CacheKeys == {"k1", "k2"}
CacheData == {JsNull, "obj"}

\* A ttlMinutes argument: omitted, or a number of minutes given in ticks
NoTtl == [given |-> FALSE, ticks |-> 0]
Ttl(n) == [given |-> TRUE, ticks |-> n]
TtlArgs == {NoTtl, Ttl(0), Ttl(1), Ttl(TicksPerMinute), Ttl(TicksPerMinute + 1)}

\* `ttlMinutes || this.defaultTtlMinutes`, in ticks
EffectiveTtl(ttl) ==
    IF ttl.given /\ ttl.ticks # 0 THEN ttl.ticks
    ELSE defaultTtlMinutes * TicksPerMinute

\* Date.prototype.setMinutes(getMinutes() + ttl): the minutes field takes the
\* integer part of its argument, seconds and milliseconds are kept
SetMinutes(t, ttlTicks) == t + (ttlTicks \div TicksPerMinute) * TicksPerMinute

ExpiresAt(t, ttl) == SetMinutes(t, EffectiveTtl(ttl))

MapSet(m, key, entry) ==
    [x \in DOMAIN m \cup {key} |-> IF x = key THEN entry ELSE m[x]]

MapDelete(m, key) == [x \in DOMAIN m \ {key} |-> m[x]]

EmptyMap == [x \in {} |-> NoRet]

CacheSet(c, key, data, ttl, t) ==
    MapSet(c, key, [data |-> data, expiresAt |-> ExpiresAt(t, ttl)])

\* (mutant) `new Date() >= entry.expiresAt`
IsExpiredAtDeadline(entry, t) == t >= entry.expiresAt

\* `new Date() > entry.expiresAt`
IsExpired(entry, t) == t > entry.expiresAt

\* getWithInfo: the answer and the map it leaves (an expired entry is deleted)
getWithInfo(c, key, t) ==
    IF key \notin DOMAIN c
    THEN [found |-> FALSE, data |-> JsNull, cache |-> c]
    ELSE IF IsExpired(c[key], t)
    THEN [found |-> FALSE, data |-> JsNull, cache |-> MapDelete(c, key)]
    ELSE [found |-> TRUE, data |-> c[key].data, cache |-> c]

get(c, key, t) == getWithInfo(c, key, t).data

has(c, key, t) ==
    IF key \notin DOMAIN c
    THEN [found |-> FALSE, cache |-> c]
    ELSE IF IsExpired(c[key], t)
    THEN [found |-> FALSE, cache |-> MapDelete(c, key)]
    ELSE [found |-> TRUE, cache |-> c]

\* (mutant) cleanup that also drops the entries expiring at this very instant
cleanupAtDeadline(c, t) ==
    LET expired == {k \in DOMAIN c : t >= c[k].expiresAt}
    IN [cache |-> [x \in DOMAIN c \ expired |-> c[x]],
        cleanedCount |-> Cardinality(expired)]

\* cleanup: the map it leaves and the count it returns
cleanup(c, t) ==
    LET expired == {k \in DOMAIN c : IsExpired(c[k], t)}
    IN [cache |-> [x \in DOMAIN c \ expired |-> c[x]],
        cleanedCount |-> Cardinality(expired)]

\* history only: when key was last set and with which TTL argument
InfoOf(key) == IF key \in DOMAIN setInfo THEN setInfo[key] ELSE [at |-> 0, ttl |-> NoTtl]

\* history only: the data stored under key, expired or not
HeldData(c, key) == IF key \in DOMAIN c THEN c[key].data ELSE JsNull

\* history only: whether key holds an entry whose deadline has not passed at t
Live(c, key, t) == key \in DOMAIN c /\ t <= c[key].expiresAt

CSet(key, data, ttl) ==
    /\ cache' = CacheSet(cache, key, data, ttl, now)
    /\ setInfo' = MapSet(setInfo, key, [at |-> now, ttl |-> ttl])
    /\ ret' = [op |-> "set", key |-> key]
    /\ UNCHANGED <<ui, now, ticks, call, computeCalls, ledgerVars, sysVars, sortVars, regVars>>

CGetWithInfo(key) ==
    LET r == getWithInfo(cache, key, now) IN
    /\ cache' = r.cache
    /\ setInfo' = [x \in DOMAIN r.cache |-> setInfo[x]]
    /\ ret' = [op |-> "getWithInfo", key |-> key, found |-> r.found, data |-> r.data,
               stored |-> key \in DOMAIN cache, wasLive |-> Live(cache, key, now),
               held |-> HeldData(cache, key), info |-> InfoOf(key)]
    /\ UNCHANGED <<ui, now, ticks, call, computeCalls, ledgerVars, sysVars, sortVars, regVars>>

CGet(key) ==
    LET r == getWithInfo(cache, key, now) IN
    /\ cache' = r.cache
    /\ setInfo' = [x \in DOMAIN r.cache |-> setInfo[x]]
    /\ ret' = [op |-> "get", key |-> key, found |-> r.found,
               data |-> get(cache, key, now),
               stored |-> key \in DOMAIN cache, wasLive |-> Live(cache, key, now),
               held |-> HeldData(cache, key), info |-> InfoOf(key)]
    /\ UNCHANGED <<ui, now, ticks, call, computeCalls, ledgerVars, sysVars, sortVars, regVars>>

CHas(key) ==
    LET r == has(cache, key, now) IN
    /\ cache' = r.cache
    /\ setInfo' = [x \in DOMAIN r.cache |-> setInfo[x]]
    /\ ret' = [op |-> "has", key |-> key, found |-> r.found, data |-> JsNull,
               stored |-> key \in DOMAIN cache, wasLive |-> Live(cache, key, now),
               held |-> HeldData(cache, key), info |-> InfoOf(key)]
    /\ UNCHANGED <<ui, now, ticks, call, computeCalls, ledgerVars, sysVars, sortVars, regVars>>

CDelete(key) ==
    /\ cache' = MapDelete(cache, key)
    /\ setInfo' = MapDelete(setInfo, key)
    /\ ret' = [op |-> "delete", key |-> key, deleted |-> key \in DOMAIN cache]
    /\ UNCHANGED <<ui, now, ticks, call, computeCalls, ledgerVars, sysVars, sortVars, regVars>>

CClear ==
    /\ cache' = EmptyMap
    /\ setInfo' = EmptyMap
    /\ ret' = [op |-> "clear"]
    /\ UNCHANGED <<ui, now, ticks, call, computeCalls, ledgerVars, sysVars, sortVars, regVars>>

CCleanup ==
    LET r == cleanup(cache, now) IN
    /\ cache' = r.cache
    /\ setInfo' = [x \in DOMAIN r.cache |-> setInfo[x]]
    /\ ret' = [op |-> "cleanup", cleanedCount |-> r.cleanedCount, before |-> cache]
    /\ UNCHANGED <<ui, now, ticks, call, computeCalls, ledgerVars, sysVars, sortVars, regVars>>

\* the clock advances: by a tick, by a minute, or past the default TTL
TickSteps == {1, TicksPerMinute, defaultTtlMinutes * TicksPerMinute}

Tick(d) ==
    /\ ticks < MaxTicks
    /\ now' = now + d
    /\ ticks' = ticks + 1
    /\ ret' = NoRet
    /\ UNCHANGED <<ui, cache, setInfo, call, computeCalls, ledgerVars, sysVars, sortVars, regVars>>

\* two getOrSet calls may be in flight together
Callers == {1, 2}

Idle == [pc |-> "idle"]

\* (mutant) `if (this.get(key) !== null)` in place of the found flag
GetOrSetHitNonNull(r) == r.data # JsNull

\* `if (result.found)` of getOrSet
GetOrSetHit(r) == r.found

\* getOrSet up to its first await: the cache check, and on a miss the call of
\* computeFn, whose promise is then awaited
GetOrSetBegin(c, key, ttl) ==
    LET r == getWithInfo(cache, key, now) IN
    /\ call[c].pc = "idle"
    /\ cache' = r.cache
    /\ setInfo' = [x \in DOMAIN r.cache |-> setInfo[x]]
    /\ IF GetOrSetHit(r)
       THEN /\ ret' = [op |-> "getOrSet", caller |-> c, key |-> key, hit |-> TRUE,
                       value |-> r.data, wasLive |-> Live(cache, key, now),
                       stored |-> key \in DOMAIN cache]
            /\ computeCalls' = [computeCalls EXCEPT ![c] = 0]
            /\ call' = call
       ELSE /\ call' = [call EXCEPT ![c] =
                           [pc |-> "computing", key |-> key, ttl |-> ttl,
                            wasLive |-> Live(cache, key, now),
                            stored |-> key \in DOMAIN cache]]
            /\ computeCalls' = [computeCalls EXCEPT ![c] = 1]
            /\ ret' = NoRet
    /\ UNCHANGED <<ui, now, ticks, ledgerVars, sysVars, sortVars, regVars>>

\* computeFn's promise resolves with v: the value is stored and returned
GetOrSetResolve(c, v) ==
    /\ call[c].pc = "computing"
    /\ cache' = CacheSet(cache, call[c].key, v, call[c].ttl, now)
    /\ setInfo' = MapSet(setInfo, call[c].key, [at |-> now, ttl |-> call[c].ttl])
    /\ ret' = [op |-> "getOrSet", caller |-> c, key |-> call[c].key, hit |-> FALSE,
               value |-> v, wasLive |-> call[c].wasLive, stored |-> call[c].stored,
               ttl |-> call[c].ttl]
    /\ call' = [call EXCEPT ![c] = Idle]
    /\ UNCHANGED <<ui, now, ticks, computeCalls, ledgerVars, sysVars, sortVars, regVars>>

\* computeFn's promise rejects: getOrSet rejects and stores nothing
GetOrSetReject(c) ==
    /\ call[c].pc = "computing"
    /\ ret' = [op |-> "getOrSetRejected", caller |-> c, key |-> call[c].key]
    /\ call' = [call EXCEPT ![c] = Idle]
    /\ UNCHANGED <<ui, cache, now, ticks, setInfo, computeCalls, ledgerVars, sysVars, sortVars, regVars>>

---------------------------------------------------------------------------
(* DomainsController.getDomainRegistry: the registry sort *)

\* (mutant) the tie-break on lastChecked left out
registryCompareVotesOnly(a, b) == b.upvotes - a.upvotes

\* the comparator passed to Array.prototype.sort: negative puts a first
registryCompare(a, b) ==
    IF a.upvotes # b.upvotes
    THEN b.upvotes - a.upvotes
    ELSE b.lastChecked - a.lastChecked

\* (mutant) an unstable sort: x goes before the elements it compares equal to
RECURSIVE InsertSortedBeforeEqual(_, _)
InsertSortedBeforeEqual(x, sorted) ==
    IF sorted = <<>> THEN <<x>>
    ELSE IF registryCompare(Head(sorted), x) < 0
    THEN <<Head(sorted)>> \o InsertSortedBeforeEqual(x, Tail(sorted))
    ELSE <<x>> \o sorted

\* Array.prototype.sort (stable): x goes after every element that does not
\* compare greater than it
RECURSIVE InsertSorted(_, _)
InsertSorted(x, sorted) ==
    IF sorted = <<>> THEN <<x>>
    ELSE IF registryCompare(Head(sorted), x) <= 0
    THEN <<Head(sorted)>> \o InsertSorted(x, Tail(sorted))
    ELSE <<x>> \o sorted

RECURSIVE ArraySort(_)
ArraySort(list) ==
    IF list = <<>> THEN <<>>
    ELSE InsertSorted(list[Len(list)], ArraySort(SubSeq(list, 1, Len(list) - 1)))

\* the entries listNonCompliantDomains may hand over, in any order: one per domain
SortDomainNames == <<"a.com", "b.com", "c.com", "d.com", "e.com">>

SortInput(n, u, t) ==
    [i \in 1..n |-> [domain |-> SortDomainNames[i], upvotes |-> u[i],
                     lastChecked |-> t[i]]]

GetDomainRegistry ==
    /\ ret.op = "none"
    /\ sortOut' = ArraySort(sortIn)
    /\ ret' = [op |-> "getDomainRegistry"]
    /\ UNCHANGED <<ui, sortIn, ledgerVars, cacheVars, sysVars, regVars>>

---------------------------------------------------------------------------
(* FirebaseService, DomainRegistryService and DomainsController.upvoteDomain *)

SysIps == {"10.0.0.1", "10.0.0.2"}
SysDomains == {"a.com", "b.com"}
VotePairs == SysIps \X SysDomains

\* two HTTP requests may be in flight together
Requests == {1, 2}

\* the validation data a stored document may carry
MissingShape ==
    [dmarcRecord |-> JsNull, isValid |-> FALSE, issues |-> <<"error">>]
InvalidShape ==
    [dmarcRecord |-> "v=DMARC1; p=none; rua=x", isValid |-> FALSE, issues |-> <<"warning", "error">>]
CompliantShape ==
    [dmarcRecord |-> "v=DMARC1; p=reject", isValid |-> TRUE, issues |-> <<>>]
DocShapes == {MissingShape, InvalidShape, CompliantShape}

\* a DomainDocument as createDomain writes it
NewDocument(d, shape, checked) ==
    [domain |-> d, dmarcRecord |-> shape.dmarcRecord, isValid |-> shape.isValid,
     issues |-> shape.issues, lastChecked |-> checked, upvotes |-> 0]

\* the collections the store may hold when the process starts
InitialStorages ==
    UNION {{[d \in D |-> NewDocument(d, sh[d], 0)] : sh \in [D -> DocShapes]}
           : D \in SUBSET SysDomains}

convertDocumentToResult(doc) ==
    [domain |-> doc.domain, dmarcRecord |-> doc.dmarcRecord, isValid |-> doc.isValid,
     issues |-> doc.issues, checkTimestamp |-> doc.lastChecked]

cacheKey(d) == "domain:" \o d

cacheExpirationMinutes == 60

\* the TTL argument getDomainResult and storeDomainResult pass to cache.set
RegistryTtl == Ttl(cacheExpirationMinutes * TicksPerMinute)

\* the transaction of FirebaseService.incrementUpvotes on an existing document
IncrementedStorage(st, d) == [st EXCEPT ![d].upvotes = st[d].upvotes + 1]

Bump(f, pair) == [f EXCEPT ![pair] = f[pair] + 1]

Respond(r, status, success, count) ==
    /\ req' = [req EXCEPT ![r] = Idle]
    /\ ret' = [op |-> "upvote", ip |-> req[r].ip, domain |-> req[r].domain,
               status |-> status, success |-> success, newUpvoteCount |-> count]

\* upvoteDomain up to its first wait on the store: the ledger check, then
\* getDomainResult's cache lookup; on a cache hit the handler runs on, without
\* another request in between, to recordVote and the start of the increment
UpvoteStart(r, ip, d) ==
    LET cached == getWithInfo(cache, cacheKey(d), now) IN
    /\ req[r].pc = "idle"
    /\ started < MaxRequests
    /\ started' = started + 1
    /\ ret' = NoRet
    /\ IF hasVoted(voteRestrictions, ip, d)
       THEN /\ req' = [req EXCEPT ![r] = [pc |-> "countRead", ip |-> ip, domain |-> d]]
            /\ UNCHANGED <<cache, voteRestrictions, recorded>>
       ELSE /\ cache' = cached.cache
            /\ IF cached.found
               THEN /\ voteRestrictions' = recordVote(voteRestrictions, ip, d)
                    /\ recorded' = recorded \cup {<<ip, d>>}
                    /\ req' = [req EXCEPT ![r] =
                                  [pc |-> "incrementing", ip |-> ip, domain |-> d]]
               ELSE /\ req' = [req EXCEPT ![r] =
                                  [pc |-> "lookup", ip |-> ip, domain |-> d]]
                    /\ UNCHANGED <<voteRestrictions, recorded>>
    /\ UNCHANGED <<ui, now, ticks, setInfo, call, computeCalls, storage, accepted,
                   increments, sortVars, regVars>>

\* getUpvoteCount answers for a pair that has voted already
UpvoteAlreadyVoted(r) ==
    LET d == req[r].domain IN
    /\ req[r].pc = "countRead"
    /\ Respond(r, 201, FALSE, IF d \in DOMAIN storage THEN storage[d].upvotes ELSE 0)
    /\ UNCHANGED <<ui, ledgerVars, cacheVars, storage, started, accepted, increments, sortVars, regVars>>

LedgerRecordedBeforeLookup(l, ip, d, missing) == recordVote(l, ip, d)

\* the ledger after getDomainResult has answered: `if (!domainResult)` throws
\* before recordVote is reached
LedgerAfterLookup(l, ip, d, missing) ==
    IF missing THEN l ELSE recordVote(l, ip, d)

\* firebaseService.getDomain answers getDomainResult after a cache miss: 404 when
\* there is no document; else the result is cached, the vote recorded and the
\* increment started
UpvoteLookupDone(r) ==
    LET d == req[r].domain
        ip == req[r].ip
        missing == d \notin DOMAIN storage IN
    /\ req[r].pc = "lookup"
    /\ voteRestrictions' = LedgerAfterLookup(voteRestrictions, ip, d, missing)
    /\ IF missing
       THEN /\ Respond(r, 404, FALSE, 0)
            /\ UNCHANGED <<cache, recorded>>
       ELSE /\ cache' = CacheSet(cache, cacheKey(d),
                                 convertDocumentToResult(storage[d]),
                                 RegistryTtl, now)
            /\ recorded' = recorded \cup {<<ip, d>>}
            /\ req' = [req EXCEPT ![r].pc = "incrementing"]
            /\ ret' = NoRet
    /\ UNCHANGED <<ui, now, ticks, setInfo, call, computeCalls, storage, started, accepted,
                   increments, sortVars, regVars>>

\* (mutant) incrementUpvotes without the cache invalidation
InvalidateNothing(c, d) == c

\* DomainRegistryService.incrementUpvotes after the transaction:
\* cacheService.delete(`domain:${domain}`)
InvalidateDomain(c, d) == MapDelete(c, cacheKey(d))

\* the increment transaction commits; the cache entry is invalidated and the
\* request answered success:true. Without a document the transaction throws.
UpvoteIncrementDone(r) ==
    LET d == req[r].domain
        pair == <<req[r].ip, req[r].domain>> IN
    /\ req[r].pc = "incrementing"
    /\ IF d \in DOMAIN storage
       THEN /\ storage' = IncrementedStorage(storage, d)
            /\ cache' = InvalidateDomain(cache, d)
            /\ increments' = Bump(increments, pair)
            /\ accepted' = Bump(accepted, pair)
            /\ Respond(r, 201, TRUE, storage[d].upvotes + 1)
       ELSE /\ Respond(r, 500, FALSE, 0)
            /\ UNCHANGED <<storage, cache, increments, accepted>>
    /\ UNCHANGED <<ui, ledgerVars, now, ticks, setInfo, call, computeCalls, started, sortVars, regVars>>

\* a read or transaction on the store fails: the handler answers 500
UpvoteStorageError(r) ==
    /\ req[r].pc \in {"countRead", "lookup", "incrementing"}
    /\ Respond(r, 500, FALSE, 0)
    /\ UNCHANGED <<ui, ledgerVars, cacheVars, storage, started, accepted, increments, sortVars, regVars>>

---------------------------------------------------------------------------
(* DomainRegistryService over FirebaseService, called by concurrent callers.
   Every call on the store takes two steps: the store serves it (the effect on
   the collection, or the document read), and later the caller's continuation
   runs with the answer; continuations of other calls may run in between. *)

\* a record with a policy and warnings only, still held as non-compliant
WeakShape ==
    [dmarcRecord |-> "v=DMARC1; p=none", isValid |-> FALSE, issues |-> <<"warning", "info">>]
RegistryShapes == DocShapes \cup {WeakShape}

\* the ValidationResults a caller may hand to storeDomainResult at instant t
StoreResults(d, t) ==
    {[domain |-> d, dmarcRecord |-> sh.dmarcRecord, isValid |-> sh.isValid,
      issues |-> sh.issues, checkTimestamp |-> t] : sh \in RegistryShapes}

\* FirebaseService.createDomain: the document written with doc(domain).set
createDomain(st, result) ==
    MapSet(st, result.domain,
           [domain |-> result.domain, dmarcRecord |-> result.dmarcRecord,
            isValid |-> result.isValid, issues |-> result.issues,
            lastChecked |-> result.checkTimestamp, upvotes |-> 0])

\* FirebaseService.updateDomain on an existing document: upvotes are kept
updateDomain(st, result) ==
    [st EXCEPT ![result.domain] =
        [@ EXCEPT !.dmarcRecord = result.dmarcRecord, !.isValid = result.isValid,
                  !.issues = result.issues, !.lastChecked = result.checkTimestamp]]

\* FirebaseService.deleteDomain
deleteDomain(st, d) == MapDelete(st, d)

\* FirebaseService.getDomain: the document, or null when there is none
NoDocument == [exists |-> FALSE]
getDomain(st, d) ==
    IF d \in DOMAIN st THEN [exists |-> TRUE, doc |-> st[d]] ELSE NoDocument

\* (mutant) the isValid filter of the query left out
AnyDocument(doc) == TRUE

\* where('isValid', '==', false)
NonCompliant(doc) == doc.isValid = FALSE

\* orderBy('upvotes', 'desc').orderBy('lastChecked', 'desc'): whether document a
\* comes before document b in the snapshot (equal keys: by document name, in the
\* direction of the last orderBy)
DomainRank(d) == CHOOSE i \in 1..Len(SortDomainNames) : SortDomainNames[i] = d
QueryBefore(a, b) ==
    \/ a.upvotes > b.upvotes
    \/ a.upvotes = b.upvotes /\ a.lastChecked > b.lastChecked
    \/ a.upvotes = b.upvotes /\ a.lastChecked = b.lastChecked
          /\ DomainRank(a.domain) > DomainRank(b.domain)

RECURSIVE QueryOrder(_)
QueryOrder(docs) ==
    IF docs = {} THEN <<>>
    ELSE LET first == CHOOSE a \in docs : \A b \in docs \ {a} : QueryBefore(a, b)
         IN <<first>> \o QueryOrder(docs \ {first})

\* FirebaseService.getNonCompliantDomains
getNonCompliantDomains(st) ==
    QueryOrder({st[d] : d \in {x \in DOMAIN st : NonCompliant(st[x])}})

\* (mutant) the issues looked at before the record
determineDmarcStatusIssuesFirst(doc) ==
    IF \E i \in 1..Len(doc.issues) : doc.issues[i] = "error" THEN "invalid"
    ELSE IF ~Truthy(doc.dmarcRecord) THEN "missing"
    ELSE "weak"

\* determineDmarcStatus: `!doc.dmarcRecord`, then issues.some(severity === 'error')
determineDmarcStatus(doc) ==
    IF ~Truthy(doc.dmarcRecord) THEN "missing"
    ELSE IF \E i \in 1..Len(doc.issues) : doc.issues[i] = "error" THEN "invalid"
    ELSE "weak"

convertDocumentToEntry(doc) ==
    [domain |-> doc.domain, lastChecked |-> doc.lastChecked, upvotes |-> doc.upvotes,
     dmarcStatus |-> determineDmarcStatus(doc),
     validationResult |-> convertDocumentToResult(doc)]

\* nonCompliantDocs.map(doc => this.convertDocumentToEntry(doc))
MapEntries(docs) == [i \in 1..Len(docs) |-> convertDocumentToEntry(docs[i])]

\* a service call in flight: where it stands, and what it was called with
InFlight(pc, op, d) == [pc |-> pc, op |-> op, domain |-> d]

Begin(r, rec) ==
    /\ req[r].pc = "idle"
    /\ started < MaxCalls
    /\ started' = started + 1
    /\ req' = [req EXCEPT ![r] = rec]

\* the call returns (ok) or throws (not ok)
Return(r, rec) ==
    /\ req' = [req EXCEPT ![r] = Idle]
    /\ ret' = rec

\* (mutant) getDomainResult going to the store whatever the cache holds
CachedResultIgnored(cached) == FALSE

\* `if (cachedResult)`: the cache only ever holds result objects under domain keys
CachedResultHit(cached) == cached.found

\* getDomainResult up to its await: the answer from the cache, or getDomain called
GetDomainResultStart(r, d) ==
    LET key == cacheKey(d)
        cached == getWithInfo(cache, key, now) IN
    /\ req[r].pc = "idle"
    /\ started < MaxCalls
    /\ started' = started + 1
    /\ cache' = cached.cache
    /\ IF CachedResultHit(cached)
       THEN /\ ret' = [op |-> "getDomainResult", domain |-> d, ok |-> TRUE, found |-> TRUE,
                       result |-> cached.data, reads |-> 0,
                       wasLive |-> Live(cache, key, now)]
            /\ req' = req
       ELSE /\ req' = [req EXCEPT ![r] =
                          [pc |-> "getRead", op |-> "getDomainResult", domain |-> d,
                           wasLive |-> Live(cache, key, now)]]
            /\ ret' = NoRet
    /\ UNCHANGED <<ui, now, ticks, setInfo, call, computeCalls, storage, accepted, increments,
                   ledgerVars, sortVars, regVars>>

\* the store serves a getDomain: the caller's answer is the document as it is now
StoreServesGet(r) ==
    /\ req[r].pc \in {"getRead", "storeRead", "txnGet"}
    /\ req' = [req EXCEPT ![r] =
                  [x \in DOMAIN @ \cup {"answer"} |->
                      IF x = "answer" THEN getDomain(storage, @.domain)
                      ELSE IF x = "pc" THEN (CASE @.pc = "getRead" -> "getAnswered"
                                               [] @.pc = "storeRead" -> "storeAnswered"
                                               [] @.pc = "txnGet" -> "txnGot")
                      ELSE @[x]]]
    /\ ret' = NoRet
    /\ UNCHANGED <<ui, ledgerVars, cacheVars, storage, started, accepted, increments,
                   sortVars, regVars>>

\* getDomainResult after getDomain: null, or the converted document, cached
GetDomainResultFinish(r) ==
    LET d == req[r].domain
        answer == req[r].answer IN
    /\ req[r].pc = "getAnswered"
    /\ IF ~answer.exists
       THEN /\ Return(r, [op |-> "getDomainResult", domain |-> d, ok |-> TRUE,
                          found |-> FALSE, result |-> NoDocument, reads |-> 1,
                          wasLive |-> req[r].wasLive])
            /\ cache' = cache
       ELSE /\ cache' = CacheSet(cache, cacheKey(d), convertDocumentToResult(answer.doc),
                                 RegistryTtl, now)
            /\ Return(r, [op |-> "getDomainResult", domain |-> d, ok |-> TRUE,
                          found |-> TRUE, result |-> convertDocumentToResult(answer.doc),
                          reads |-> 1, wasLive |-> req[r].wasLive])
    /\ UNCHANGED <<ui, now, ticks, setInfo, call, computeCalls, storage, started, accepted,
                   increments, ledgerVars, sortVars, regVars>>

\* storeDomainResult(result) up to its first await: getDomain called
StoreDomainResultStart(r, result) ==
    /\ Begin(r, [pc |-> "storeRead", op |-> "storeDomainResult",
                 domain |-> result.domain, result |-> result])
    /\ ret' = NoRet
    /\ UNCHANGED <<ui, ledgerVars, cacheVars, storage, accepted, increments, sortVars, regVars>>

\* `if (existingDomain)`: updateDomain or createDomain called
StoreDomainResultWrite(r) ==
    /\ req[r].pc = "storeAnswered"
    /\ req' = [req EXCEPT ![r] =
                  [pc |-> IF req[r].answer.exists THEN "storeUpdate" ELSE "storeCreate",
                   op |-> "storeDomainResult", domain |-> req[r].domain,
                   result |-> req[r].result]]
    /\ ret' = NoRet
    /\ UNCHANGED <<ui, ledgerVars, cacheVars, storage, started, accepted, increments,
                   sortVars, regVars>>

\* the store serves the write: doc(domain).set creates or replaces the document,
\* doc(domain).update fails when there is no document
StoreServesWrite(r) ==
    LET d == req[r].domain IN
    /\ req[r].pc \in {"storeUpdate", "storeCreate"}
    /\ IF req[r].pc = "storeCreate"
       THEN /\ storage' = createDomain(storage, req[r].result)
            /\ base' = MapSet(base, d, 0)
            /\ returned' = MapSet(returned, d, <<>>)
            /\ req' = [req EXCEPT ![r].pc = "storeWritten"]
       ELSE IF d \in DOMAIN storage
       THEN /\ storage' = updateDomain(storage, req[r].result)
            /\ req' = [req EXCEPT ![r].pc = "storeWritten"]
            /\ UNCHANGED regVars
       ELSE /\ req' = [req EXCEPT ![r].pc = "rejected"]
            /\ UNCHANGED <<storage, regVars>>
    /\ ret' = NoRet
    /\ UNCHANGED <<ui, ledgerVars, cacheVars, started, accepted, increments, sortVars>>

\* storeDomainResult after the write: the result is mirrored into the cache
StoreDomainResultFinish(r) ==
    /\ req[r].pc = "storeWritten"
    /\ cache' = CacheSet(cache, cacheKey(req[r].domain), req[r].result, RegistryTtl, now)
    /\ Return(r, [op |-> "storeDomainResult", domain |-> req[r].domain, ok |-> TRUE,
                  result |-> req[r].result])
    /\ UNCHANGED <<ui, now, ticks, setInfo, call, computeCalls, storage, started, accepted,
                   increments, ledgerVars, sortVars, regVars>>

\* removeDomainFromRegistry up to its await: deleteDomain called
RemoveDomainStart(r, d) ==
    /\ Begin(r, InFlight("removeDelete", "removeDomainFromRegistry", d))
    /\ ret' = NoRet
    /\ UNCHANGED <<ui, ledgerVars, cacheVars, storage, accepted, increments, sortVars, regVars>>

\* the store serves the delete
StoreServesDelete(r) ==
    LET d == req[r].domain IN
    /\ req[r].pc = "removeDelete"
    /\ storage' = deleteDomain(storage, d)
    /\ base' = MapDelete(base, d)
    /\ returned' = MapDelete(returned, d)
    /\ req' = [req EXCEPT ![r].pc = "removeDeleted"]
    /\ ret' = NoRet
    /\ UNCHANGED <<ui, ledgerVars, cacheVars, started, accepted, increments, sortVars>>

\* (mutant) removeDomainFromRegistry leaving the cache entry in place
CacheKept(c, key) == c

\* cacheService.delete(cacheKey)
CacheDelete(c, key) == MapDelete(c, key)

\* removeDomainFromRegistry after the delete: the cache entry is removed
RemoveDomainFinish(r) ==
    /\ req[r].pc = "removeDeleted"
    /\ cache' = CacheDelete(cache, cacheKey(req[r].domain))
    /\ Return(r, [op |-> "removeDomainFromRegistry", domain |-> req[r].domain, ok |-> TRUE])
    /\ UNCHANGED <<ui, now, ticks, setInfo, call, computeCalls, storage, started, accepted,
                   increments, ledgerVars, sortVars, regVars>>

\* incrementUpvotes up to its await: the transaction starts with transaction.get
IncrementUpvotesStart(r, d) ==
    /\ Begin(r, InFlight("txnGet", "incrementUpvotes", d))
    /\ ret' = NoRet
    /\ UNCHANGED <<ui, ledgerVars, cacheVars, storage, accepted, increments, sortVars, regVars>>

\* the transaction's callback: throws without a document, else asks to write
\* `(upvotes || 0) + 1` and the transaction goes to commit
TransactionUpdate(r) ==
    LET answer == req[r].answer IN
    /\ req[r].pc = "txnGot"
    /\ IF ~answer.exists
       THEN Return(r, [op |-> "incrementUpvotes", domain |-> req[r].domain, ok |-> FALSE])
       ELSE /\ req' = [req EXCEPT ![r] =
                          [pc |-> "txnCommit", op |-> "incrementUpvotes",
                           domain |-> req[r].domain, answer |-> answer,
                           newUpvotes |-> answer.doc.upvotes + 1]]
            /\ ret' = NoRet
    /\ UNCHANGED <<ui, ledgerVars, cacheVars, storage, started, accepted, increments,
                   sortVars, regVars>>

\* (mutant) a plain read followed by a plain write, outside any transaction
TransactionNeverConflicts(read, current) == FALSE

\* runTransaction: the commit is refused when the document read has changed since
TransactionConflict(read, current) == read # current

\* the store serves the commit: on a conflict runTransaction runs the callback
\* again from transaction.get, else the write takes effect
StoreServesCommit(r) ==
    LET d == req[r].domain IN
    /\ req[r].pc = "txnCommit"
    /\ IF TransactionConflict(req[r].answer, getDomain(storage, d))
       THEN /\ req' = [req EXCEPT ![r] = InFlight("txnGet", "incrementUpvotes", d)]
            /\ UNCHANGED <<storage, regVars>>
       ELSE IF d \in DOMAIN storage
       THEN /\ storage' = [storage EXCEPT ![d].upvotes = req[r].newUpvotes]
            /\ returned' = [returned EXCEPT ![d] = Append(@, req[r].newUpvotes)]
            /\ base' = base
            /\ req' = [req EXCEPT ![r] =
                          [pc |-> "txnCommitted", op |-> "incrementUpvotes", domain |-> d,
                           newUpvotes |-> req[r].newUpvotes]]
       ELSE /\ req' = [req EXCEPT ![r].pc = "rejected"]
            /\ UNCHANGED <<storage, regVars>>
    /\ ret' = NoRet
    /\ UNCHANGED <<ui, ledgerVars, cacheVars, started, accepted, increments, sortVars>>

\* incrementUpvotes after the transaction: the cache entry is invalidated
IncrementUpvotesFinish(r) ==
    /\ req[r].pc = "txnCommitted"
    /\ cache' = MapDelete(cache, cacheKey(req[r].domain))
    /\ Return(r, [op |-> "incrementUpvotes", domain |-> req[r].domain, ok |-> TRUE,
                  newUpvotes |-> req[r].newUpvotes])
    /\ UNCHANGED <<ui, now, ticks, setInfo, call, computeCalls, storage, started, accepted,
                   increments, ledgerVars, sortVars, regVars>>

\* a call on the store is rejected (the store is unreachable, or the write was
\* refused): the service logs and rethrows
StoreCallRejected(r) ==
    /\ req[r].pc \in {"getRead", "storeRead", "storeUpdate", "storeCreate",
                      "removeDelete", "txnGet", "txnCommit", "rejected"}
    /\ Return(r, [op |-> req[r].op, domain |-> req[r].domain, ok |-> FALSE])
    /\ UNCHANGED <<ui, ledgerVars, cacheVars, storage, started, accepted, increments,
                   sortVars, regVars>>

\* listNonCompliantDomains: one query on the store, each document converted
ListNonCompliantDomains ==
    /\ ret' = [op |-> "listNonCompliantDomains", ok |-> TRUE,
               entries |-> MapEntries(getNonCompliantDomains(storage))]
    /\ UNCHANGED <<ui, ledgerVars, cacheVars, sysVars, sortVars, regVars>>

---------------------------------------------------------------------------
(* DomainsController: validate, recheck, details and registry requests. The
   DmarcValidator injected into the controller is taken by its contract: a call
   of validateDomain resolves with a validation result or rejects. *)

\* the results validateDomain(d) may resolve with at instant t: no record, a
\* record with an error, a record without one (valid)
ValidatorResults(d, t) ==
    {[domain |-> d, dmarcRecord |-> sh.dmarcRecord, isValid |-> sh.isValid,
      issues |-> sh.issues, checkTimestamp |-> t] : sh \in DocShapes}

\* POST /validate up to its await; `if (!request.domain)` answers 400
ValidateDomainStart(r, d) ==
    /\ req[r].pc = "idle"
    /\ started < MaxCalls
    /\ started' = started + 1
    /\ IF d = ""
       THEN /\ ret' = [op |-> "validate", domain |-> d, status |-> 400]
            /\ req' = req
       ELSE /\ req' = [req EXCEPT ![r] = InFlight("validating", "validate", d)]
            /\ ret' = NoRet
    /\ UNCHANGED <<ui, ledgerVars, cacheVars, storage, accepted, increments, sortVars, regVars>>

\* the validator resolves: POST /validate returns the result
ValidateDomainFinish(r, result) ==
    /\ req[r].pc = "validating"
    /\ result.domain = req[r].domain
    /\ Return(r, [op |-> "validate", domain |-> req[r].domain, status |-> 201,
                  result |-> result])
    /\ UNCHANGED <<ui, ledgerVars, cacheVars, storage, started, accepted, increments,
                   sortVars, regVars>>

\* POST /:domain/recheck up to its await on the validator
RecheckDomainStart(r, d) ==
    /\ Begin(r, InFlight("rechecking", "recheck", d))
    /\ ret' = NoRet
    /\ UNCHANGED <<ui, ledgerVars, cacheVars, storage, accepted, increments, sortVars, regVars>>

\* the validator resolves: `if (result.isValid)` removeDomainFromRegistry is
\* called, which calls deleteDomain; else the result is returned
RecheckDomainValidated(r, result) ==
    /\ req[r].pc = "rechecking"
    /\ result.domain = req[r].domain
    /\ IF result.isValid
       THEN /\ req' = [req EXCEPT ![r] =
                          [pc |-> "removeDelete", op |-> "recheck",
                           domain |-> req[r].domain, result |-> result]]
            /\ ret' = NoRet
       ELSE Return(r, [op |-> "recheck", domain |-> req[r].domain, status |-> 201,
                       result |-> result, removeCalled |-> FALSE])
    /\ UNCHANGED <<ui, ledgerVars, cacheVars, storage, started, accepted, increments,
                   sortVars, regVars>>

\* removeDomainFromRegistry after the delete, then the recheck's response
RecheckDomainFinish(r) ==
    /\ req[r].pc = "removeDeleted"
    /\ cache' = CacheDelete(cache, cacheKey(req[r].domain))
    /\ Return(r, [op |-> "recheck", domain |-> req[r].domain, status |-> 201,
                  result |-> req[r].result, removeCalled |-> TRUE])
    /\ UNCHANGED <<ui, now, ticks, setInfo, call, computeCalls, storage, started, accepted,
                   increments, ledgerVars, sortVars, regVars>>

\* GET /:domain/details up to its await: getDomainResult's cache lookup
GetDomainDetailsStart(r, d) ==
    LET key == cacheKey(d)
        cached == getWithInfo(cache, key, now) IN
    /\ req[r].pc = "idle"
    /\ started < MaxCalls
    /\ started' = started + 1
    /\ cache' = cached.cache
    /\ IF CachedResultHit(cached)
       THEN /\ ret' = [op |-> "details", domain |-> d, status |-> 200,
                       result |-> cached.data]
            /\ req' = req
       ELSE /\ req' = [req EXCEPT ![r] = InFlight("getRead", "details", d)]
            /\ ret' = NoRet
    /\ UNCHANGED <<ui, now, ticks, setInfo, call, computeCalls, storage, accepted, increments,
                   ledgerVars, sortVars, regVars>>

\* getDomainResult after getDomain, then `if (!result)` 404, else the result
GetDomainDetailsFinish(r) ==
    LET d == req[r].domain
        answer == req[r].answer IN
    /\ req[r].pc = "getAnswered"
    /\ IF ~answer.exists
       THEN /\ Return(r, [op |-> "details", domain |-> d, status |-> 404])
            /\ cache' = cache
       ELSE /\ cache' = CacheSet(cache, cacheKey(d), convertDocumentToResult(answer.doc),
                                 RegistryTtl, now)
            /\ Return(r, [op |-> "details", domain |-> d, status |-> 200,
                          result |-> convertDocumentToResult(answer.doc)])
    /\ UNCHANGED <<ui, now, ticks, setInfo, call, computeCalls, storage, started, accepted,
                   increments, ledgerVars, sortVars, regVars>>

\* GET /registry: the listing, sorted
GetRegistry ==
    /\ sortIn' = MapEntries(getNonCompliantDomains(storage))
    /\ sortOut' = ArraySort(sortIn')
    /\ ret' = [op |-> "registry", status |-> 200]
    /\ UNCHANGED <<ui, ledgerVars, cacheVars, sysVars, regVars>>

\* the validator or the store rejects: the handler's catch answers 500
HandlerFails(r) ==
    /\ req[r].pc \in {"validating", "rechecking", "removeDelete", "getRead"}
    /\ Return(r, [op |-> req[r].op, domain |-> req[r].domain, status |-> 500])
    /\ UNCHANGED <<ui, ledgerVars, cacheVars, storage, started, accepted, increments,
                   sortVars, regVars>>

---------------------------------------------------------------------------
(* DomainsController.getClientIp and the address upvoteDomain hands to the
   ledger. A header value is a string written as a sequence of pieces: an
   address, a comma, a blank. A header of the request is absent (undefined) or
   carries a value, which may be the empty string. *)

HeaderPieces == {"10.0.0.1", ",", " "}

HeaderValues == UNION {[1..n -> HeaderPieces] : n \in 0..MaxHeaderLen}

NoHeader == [present |-> FALSE]
Header(v) == [present |-> TRUE, value |-> v]

\* request.connection.remoteAddress, undefined once the socket is gone
NoAddress == [present |-> FALSE]
RemoteAddress == [present |-> TRUE, text |-> "192.0.2.7"]

\* the text of a value
RECURSIVE Join(_)
Join(v) == IF v = <<>> THEN "" ELSE Head(v) \o Join(Tail(v))

\* String.prototype.split(','): the elements between the commas
RECURSIVE Split(_)
Split(v) ==
    IF v = <<>> THEN << <<>> >>
    ELSE IF Head(v) = "," THEN << <<>> >> \o Split(Tail(v))
    ELSE LET rest == Split(Tail(v)) IN
         << <<Head(v)>> \o Head(rest) >> \o Tail(rest)

RECURSIVE TrimStart(_)
TrimStart(v) ==
    IF v # <<>> /\ Head(v) = " " THEN TrimStart(Tail(v)) ELSE v

RECURSIVE TrimEnd(_)
TrimEnd(v) ==
    IF v # <<>> /\ v[Len(v)] = " " THEN TrimEnd(SubSeq(v, 1, Len(v) - 1)) ELSE v

\* (mutant) the first element taken as it stands
TrimNone(v) == v

\* String.prototype.trim
Trim(v) == TrimEnd(TrimStart(v))

\* `if (header)`: an absent header and the empty string are falsy
HeaderTruthy(h) == h.present /\ h.value # <<>>

\* `remoteAddress || socket.remoteAddress || 'unknown'`; request.connection is
\* request.socket
ConnectionAddress(a) == IF a.present THEN a.text ELSE "unknown"

getClientIp(request) ==
    IF HeaderTruthy(request.forwarded) THEN Join(Trim(Split(request.forwarded.value)[1]))
    ELSE IF HeaderTruthy(request.realIp) THEN Join(request.realIp.value)
    ELSE IF HeaderTruthy(request.clientIp) THEN Join(request.clientIp.value)
    ELSE ConnectionAddress(request.address)

\* the requests sent: any X-Forwarded-For beside the other headers all given
\* or all left out, and every mix of the other headers without a usable
\* X-Forwarded-For
OtherHeaders == {NoHeader, Header(<<>>), Header(<<"10.0.0.2">>)}
HttpRequests ==
    {[forwarded |-> Header(v), realIp |-> o, clientIp |-> o, address |-> RemoteAddress]
        : v \in HeaderValues, o \in {NoHeader, Header(<<"10.0.0.2">>)}}
    \cup
    {[forwarded |-> f, realIp |-> x, clientIp |-> c, address |-> a]
        : f \in {NoHeader, Header(<<>>)}, x \in OtherHeaders, c \in OtherHeaders,
          a \in {NoAddress, RemoteAddress}}

\* upvoteDomain up to its wait on getDomainResult, one request at a time:
\* clientIp is computed once and handed to hasVoted
UpvoteFromRequest(r, request, d) ==
    LET clientIp == getClientIp(request) IN
    /\ \A q \in Requests : req[q].pc = "idle"
    /\ started < MaxRequests
    /\ started' = started + 1
    /\ IF hasVoted(voteRestrictions, clientIp, d)
       THEN /\ ret' = [op |-> "upvote", request |-> request, domain |-> d,
                       status |-> 201, success |-> FALSE]
            /\ req' = req
       ELSE /\ req' = [req EXCEPT ![r] = [pc |-> "lookup", request |-> request,
                                           ip |-> clientIp, domain |-> d]]
            /\ ret' = NoRet
    /\ UNCHANGED <<ui, ledgerVars, cacheVars, storage, accepted, increments, sortVars, regVars>>

\* getDomainResult answered with a result: the same clientIp goes to recordVote
UpvoteFromRequestFound(r) ==
    /\ req[r].pc = "lookup"
    /\ voteRestrictions' = recordVote(voteRestrictions, req[r].ip, req[r].domain)
    /\ recorded' = recorded \cup {<<req[r].ip, req[r].domain>>}
    /\ req' = [req EXCEPT ![r] = Idle]
    /\ ret' = [op |-> "upvote", request |-> req[r].request, domain |-> req[r].domain,
               status |-> 201, success |-> TRUE]
    /\ UNCHANGED <<ui, cacheVars, storage, started, accepted, increments, sortVars, regVars>>

\* getDomainResult answered null (404) or threw (500)
UpvoteFromRequestRefused(r, status) ==
    /\ req[r].pc = "lookup"
    /\ req' = [req EXCEPT ![r] = Idle]
    /\ ret' = [op |-> "upvote", request |-> req[r].request, domain |-> req[r].domain,
               status |-> status, success |-> FALSE]
    /\ UNCHANGED <<ui, ledgerVars, cacheVars, storage, started, accepted, increments,
                   sortVars, regVars>>

---------------------------------------------------------------------------
(* DmarcValidatorImpl.parseDmarcRecord. A record is a string written as a
   sequence of pieces (a word, a digit, or one of ";", "=", ",", " "); the
   argument may also be something that is not a string. *)

\* <<whether it is a string, its pieces>>
NotAString == <<FALSE, <<>>>>
Text(v) == <<TRUE, v>>
IsString(record) == record[1]
TextOf(record) == record[2]

NonEmpty(v) == v # <<>>

\* String.prototype.split(sep): the elements between the separators
RECURSIVE SplitOn(_, _)
SplitOn(v, sep) ==
    IF v = <<>> THEN << <<>> >>
    ELSE IF Head(v) = sep THEN << <<>> >> \o SplitOn(Tail(v), sep)
    ELSE LET rest == SplitOn(Tail(v), sep) IN
         << <<Head(v)>> \o Head(rest) >> \o Tail(rest)

\* .map(part => part.trim())
TrimAll(parts) == [i \in DOMAIN parts |-> Trim(parts[i])]

\* String.prototype.toLowerCase, for the upper-case pieces written here
ToLowerCase(v) ==
    [i \in DOMAIN v |-> IF v[i] = "P" THEN "p" ELSE IF v[i] = "V" THEN "v" ELSE v[i]]

DigitPieces == <<"0", "1", "2", "3", "4", "5", "6", "7", "8", "9">>
IsDigit(piece) == \E i \in DOMAIN DigitPieces : DigitPieces[i] = piece
DigitValue(piece) == (CHOOSE i \in DOMAIN DigitPieces : DigitPieces[i] = piece) - 1

RECURSIVE LeadingDigits(_)
LeadingDigits(v) ==
    IF v # <<>> /\ IsDigit(Head(v)) THEN <<Head(v)>> \o LeadingDigits(Tail(v)) ELSE <<>>

RECURSIVE NumberOf(_)
NumberOf(ds) ==
    IF ds = <<>> THEN 0
    ELSE NumberOf(SubSeq(ds, 1, Len(ds) - 1)) * 10 + DigitValue(ds[Len(ds)])

\* parseInt(value, 10): an optional sign and the digits up to the first piece
\* that is not a digit; NaN without a digit
parseInt(v) ==
    LET signed == v # <<>> /\ Head(v) \in {"-", "+"}
        ds == LeadingDigits(IF signed THEN Tail(v) ELSE v) IN
    IF ds = <<>> THEN [nan |-> TRUE]
    ELSE [nan |-> FALSE,
          n |-> IF signed /\ Head(v) = "-" THEN 0 - NumberOf(ds) ELSE NumberOf(ds)]

\* `const [key, value] = pair.split('=').map(part => part.trim())`
KeyValue(pair) ==
    LET parts == TrimAll(SplitOn(pair, "=")) IN
    [key |-> parts[1],
     hasValue |-> Len(parts) >= 2,
     value |-> IF Len(parts) >= 2 THEN parts[2] ELSE <<>>]

Thrown(message) == [ok |-> FALSE, error |-> message]
Parsed(policy) == [ok |-> TRUE, policy |-> policy]

PolicyValues == {"none", "quarantine", "reject"}
AlignmentValues == {"r", "s", "relaxed", "strict"}
AlignmentOf(text) == IF text \in {"s", "strict"} THEN "strict" ELSE "relaxed"
DefaultAlignment == [spf |-> "relaxed", dkim |-> "relaxed"]

\* the addresses of a rua/ruf value
AddressesOf(value) == SelectSeq(TrimAll(SplitOn(value, ",")), NonEmpty)

\* the body of the switch for one pair
ApplyTag(policy, key, value) ==
    LET text == Join(value)
        withAddresses == IF "reportingAddresses" \in DOMAIN policy THEN policy
                         ELSE MapSet(policy, "reportingAddresses", <<>>)
        withAlignment == IF "alignment" \in DOMAIN policy THEN policy
                         ELSE MapSet(policy, "alignment", DefaultAlignment) IN
    CASE key = "v" ->
            IF text # "DMARC1" THEN Thrown("Invalid DMARC version")
            ELSE Parsed(MapSet(policy, "version", text))
      [] key = "p" ->
            IF text \notin PolicyValues THEN Thrown("Invalid policy value")
            ELSE Parsed(MapSet(policy, "policy", text))
      [] key = "sp" ->
            IF text \notin PolicyValues THEN Thrown("Invalid subdomain policy value")
            ELSE Parsed(MapSet(policy, "subdomainPolicy", text))
      [] key = "pct" ->
            LET percentage == parseInt(value) IN
            IF percentage.nan \/ percentage.n < 0 \/ percentage.n > 100
            THEN Thrown("Invalid percentage value")
            ELSE Parsed(MapSet(policy, "percentage", percentage.n))
      [] key \in {"rua", "ruf"} ->
            Parsed(MapSet(withAddresses, "reportingAddresses",
                          withAddresses["reportingAddresses"] \o AddressesOf(value)))
      [] key = "adkim" ->
            IF text \notin AlignmentValues THEN Thrown("Invalid DKIM alignment value")
            ELSE Parsed(MapSet(withAlignment, "alignment",
                               [withAlignment["alignment"] EXCEPT !.dkim = AlignmentOf(text)]))
      [] key = "aspf" ->
            IF text \notin AlignmentValues THEN Thrown("Invalid SPF alignment value")
            ELSE Parsed(MapSet(withAlignment, "alignment",
                               [withAlignment["alignment"] EXCEPT !.spf = AlignmentOf(text)]))
      [] OTHER -> Parsed(policy)

\* the loop over the pairs: a pair without key or value is passed over, a throw
\* ends the loop
RECURSIVE ParsePairs(_, _)
ParsePairs(pairs, policy) ==
    IF pairs = <<>> THEN Parsed(policy)
    ELSE LET kv == KeyValue(Head(pairs)) IN
         IF kv.key = <<>> \/ ~kv.hasValue THEN ParsePairs(Tail(pairs), policy)
         ELSE LET step == ApplyTag(policy, Join(ToLowerCase(kv.key)), kv.value) IN
              IF step.ok THEN ParsePairs(Tail(pairs), step.policy) ELSE step

StartsWithVersion(v) == Len(v) >= 3 /\ SubSeq(v, 1, 3) = <<"v", "=", "DMARC1">>

parseDmarcRecord(record) ==
    IF ~IsString(record) \/ TextOf(record) = <<>>
    THEN Thrown("Invalid DMARC record: record must be a non-empty string")
    ELSE LET cleanRecord == Trim(TextOf(record)) IN
         IF ~StartsWithVersion(cleanRecord)
         THEN Thrown("Invalid DMARC record: must start with v=DMARC1")
         ELSE ParsePairs(SelectSeq(TrimAll(SplitOn(cleanRecord, ";")), NonEmpty),
                         [version |-> "DMARC1", policy |-> "none",
                          rawRecord |-> Join(cleanRecord)])

\* the first segments and the later segments records are written with
FirstSegments ==
    {<<"v", "=", "DMARC1">>, <<" ", "v", "=", "DMARC1", " ">>, <<"v", "=", "DMARC1", "x">>,
     <<"v", "=", "DMARC2">>, <<"p", "=", "none">>, <<" ">>}
LaterSegments ==
    {<<"p", "=", "reject">>, <<" ", "p", " ", "=", " ", "quarantine", " ">>,
     <<"P", "=", "none">>, <<"p", "=", "invalid">>, <<"p", "=">>,
     <<"p", "=", "reject", "=", "x">>,
     <<"sp", "=", "none">>, <<"sp", "=", "all">>,
     <<"pct", "=", "5", "0">>, <<"pct", "=", "0">>, <<"pct", "=", "1", "0", "0">>,
     <<"pct", "=", "1", "5", "0">>, <<"pct", "=", "-", "1">>, <<"pct", "=", "abc">>,
     <<"pct", "=", "5", "0", "abc">>, <<"pct", "=", "1", "2", ".", "5">>,
     <<"adkim", "=", "s">>, <<"adkim", "=", "x">>, <<"aspf", "=", "relaxed">>,
     <<"aspf", "=", "q">>,
     <<"rua", "=", "mailto:a@x.com", ",", " ", "b">>,
     <<"ruf", "=", "mailto:a@x.com?subject", "=", "dmarc">>,
     <<"v", "=", "DMARC2">>, <<"fo", "=", "1">>, <<"fo">>, <<"=", "1">>, <<>>}

RECURSIVE JoinSegments(_)
JoinSegments(segs) ==
    IF Len(segs) = 1 THEN segs[1] ELSE segs[1] \o <<";">> \o JoinSegments(Tail(segs))

\* a call of parseDmarcRecord, the first of the behaviour
ParseDmarcRecord(record) ==
    /\ ret.op = "none"
    /\ ret' = [op |-> "parseDmarcRecord", record |-> record,
               result |-> parseDmarcRecord(record)]
    /\ UNCHANGED <<ui, ledgerVars, cacheVars, sysVars, sortVars, regVars>>

ParseRecordOf(segs) == ParseDmarcRecord(Text(JoinSegments(segs)))

---------------------------------------------------------------------------
(* DmarcValidatorImpl.evaluatePolicy. A policy is a DmarcPolicy object: a
   function from the properties it has to their values; a reporting address is
   a string written as a sequence of pieces. *)

Has(policy, field) == field \in DOMAIN policy

Issue(type, severity, message) == [type |-> type, severity |-> severity, message |-> message]

\* /^[^\s@]+@[^\s@]+\.[^\s@]+$/ on the address without a leading 'mailto:'
isValidEmailFormat(address) ==
    LET clean == IF address # <<>> /\ Head(address) = "mailto:" THEN Tail(address)
                 ELSE address
        ats == {i \in DOMAIN clean : clean[i] = "@"} IN
    /\ \A i \in DOMAIN clean : clean[i] # " "
    /\ Cardinality(ats) = 1
    /\ LET at == CHOOSE i \in ats : TRUE IN
       /\ at > 1
       /\ \E dot \in (at + 2)..(Len(clean) - 1) : clean[dot] = "."

PercentageMessage(n) == "DMARC policy applies to only " \o ToString(n) \o "% of messages"
AddressMessage(address) == "Invalid reporting address format: " \o Join(address)

\* `if (policy.policy === 'none')`
StrengthIssues(policy) ==
    IF policy["policy"] = "none"
    THEN <<Issue("weak_policy", "warning",
                 "DMARC policy is set to \"none\" which provides no protection")>>
    ELSE <<>>

\* (mutant) `if (policy.percentage && policy.percentage < 100)`
PercentageIssuesIfTruthy(policy) ==
    IF Has(policy, "percentage") /\ policy["percentage"] # 0 /\ policy["percentage"] < 100
    THEN <<Issue("configuration_issue", "info", PercentageMessage(policy["percentage"]))>>
    ELSE <<>>

\* `if (policy.percentage !== undefined && policy.percentage < 100)`
PercentageIssues(policy) ==
    IF Has(policy, "percentage") /\ policy["percentage"] < 100
    THEN <<Issue("configuration_issue", "info", PercentageMessage(policy["percentage"]))>>
    ELSE <<>>

\* `if (!policy.reportingAddresses || policy.reportingAddresses.length === 0)`
ReportingIssues(policy) ==
    IF ~Has(policy, "reportingAddresses") \/ Len(policy["reportingAddresses"]) = 0
    THEN <<Issue("configuration_issue", "info", "No reporting addresses configured (rua/ruf)")>>
    ELSE <<>>

\* (mutant) the subdomain policy compared with 'none' alone
SubdomainIssuesWhateverPolicy(policy) ==
    IF ~Has(policy, "subdomainPolicy")
    THEN <<Issue("configuration_issue", "info", "No explicit subdomain policy set")>>
    ELSE IF policy["subdomainPolicy"] = "none"
    THEN <<Issue("weak_policy", "warning",
                 "Subdomain policy is weaker than main domain policy")>>
    ELSE <<>>

\* `if (!policy.subdomainPolicy) ... else if (policy.subdomainPolicy === 'none'
\* && policy.policy !== 'none')`
SubdomainIssues(policy) ==
    IF ~Has(policy, "subdomainPolicy")
    THEN <<Issue("configuration_issue", "info", "No explicit subdomain policy set")>>
    ELSE IF policy["subdomainPolicy"] = "none" /\ policy["policy"] # "none"
    THEN <<Issue("weak_policy", "warning",
                 "Subdomain policy is weaker than main domain policy")>>
    ELSE <<>>

\* `if (policy.alignment)` with both alignments relaxed
AlignmentIssues(policy) ==
    IF /\ Has(policy, "alignment")
       /\ policy["alignment"].spf = "relaxed"
       /\ policy["alignment"].dkim = "relaxed"
    THEN <<Issue("alignment_issue", "info", "Both SPF and DKIM alignment are set to relaxed")>>
    ELSE <<>>

\* the loop over the reporting addresses
RECURSIVE AddressIssuesOf(_)
AddressIssuesOf(addresses) ==
    IF addresses = <<>> THEN <<>>
    ELSE (IF ~isValidEmailFormat(Head(addresses))
          THEN <<Issue("syntax_error", "error", AddressMessage(Head(addresses)))>>
          ELSE <<>>) \o AddressIssuesOf(Tail(addresses))

AddressIssues(policy) ==
    IF Has(policy, "reportingAddresses") THEN AddressIssuesOf(policy["reportingAddresses"])
    ELSE <<>>

\* (mutant) the addresses validated before the other checks
evaluatePolicyAddressesFirst(policy) ==
    AddressIssues(policy) \o StrengthIssues(policy) \o PercentageIssues(policy)
        \o ReportingIssues(policy) \o SubdomainIssues(policy) \o AlignmentIssues(policy)

evaluatePolicy(policy) ==
    StrengthIssues(policy) \o PercentageIssues(policy) \o ReportingIssues(policy)
        \o SubdomainIssues(policy) \o AlignmentIssues(policy) \o AddressIssues(policy)

\* the policies evaluated
ReportingAddressMenu ==
    {<<"mailto:", "dmarc", "@", "example", ".", "com">>, <<"dmarc", "@", "example", ".", "com">>,
     <<"dmarc">>, <<"mailto:", "dmarc", "@", "example">>}
AddressLists == UNION {[1..n -> ReportingAddressMenu] : n \in 0..MaxAddresses}
Alignments == [spf : {"relaxed", "strict"}, dkim : {"relaxed", "strict"}]
Percentages == {0, 50, 100}

WithOptional(policies, field, values) ==
    policies \cup {MapSet(policy, field, v) : policy \in policies, v \in values}

EvaluationPolicies ==
    WithOptional(
      WithOptional(
        WithOptional(
          WithOptional({[version |-> "DMARC1", policy |-> p, rawRecord |-> "v=DMARC1"]
                           : p \in PolicyValues},
                       "subdomainPolicy", PolicyValues),
          "percentage", Percentages),
        "alignment", Alignments),
      "reportingAddresses", AddressLists)

\* a call of evaluatePolicy, the first of the behaviour
EvaluatePolicy(policy) ==
    /\ ret.op = "none"
    /\ ret' = [op |-> "evaluatePolicy", policy |-> policy, issues |-> evaluatePolicy(policy)]
    /\ UNCHANGED <<ui, ledgerVars, cacheVars, sysVars, sortVars, regVars>>

---------------------------------------------------------------------------
(* DnsServiceImpl.validateDomainFormat and lookupDmarcRecord, and
   DmarcValidatorImpl.validateDomain. A domain is a string written as a sequence
   of pieces: a letter, a digit, "-", ".", a blank, or a run of letters, all in
   lower case, so that toLowerCase leaves them as they are. *)

DomainPieces == {"a", "1", "-", ".", " ", "com", "x63", "x64"}

LetterPieces == {"a", "com", "x63", "x64"}

\* the number of characters of a piece
PieceLength(piece) ==
    CASE piece = "com" -> 3
      [] piece = "x63" -> 63
      [] piece = "x64" -> 64
      [] OTHER -> 1

RECURSIVE TextLength(_)
TextLength(v) == IF v = <<>> THEN 0 ELSE PieceLength(Head(v)) + TextLength(Tail(v))

\* [a-zA-Z0-9](?:[a-zA-Z0-9-]{0,61}[a-zA-Z0-9])?
LabelMatches(label) ==
    /\ label # <<>>
    /\ \A i \in DOMAIN label : label[i] \in LetterPieces \cup {"1", "-"}
    /\ label[1] # "-"
    /\ label[Len(label)] # "-"
    /\ TextLength(label) <= 63

\* [a-zA-Z]{2,}
TopLevelMatches(label) ==
    /\ \A i \in DOMAIN label : label[i] \in LetterPieces
    /\ TextLength(label) >= 2

\* domainRegex.test(cleanDomain)
DomainRegexMatches(clean) ==
    LET labels == SplitOn(clean, ".") IN
    /\ Len(labels) >= 2
    /\ \A i \in 1..(Len(labels) - 1) : LabelMatches(labels[i])
    /\ TopLevelMatches(labels[Len(labels)])

validateDomainFormat(domain) ==
    IF ~IsString(domain) \/ TextOf(domain) = <<>> THEN FALSE
    ELSE LET cleanDomain == Trim(TextOf(domain)) IN
         IF TextLength(cleanDomain) = 0 \/ TextLength(cleanDomain) > 253 THEN FALSE
         ELSE DomainRegexMatches(cleanDomain)

\* (mutant) only a missing domain is refused
LookupRefusedIfMissing(domain) == ~IsString(domain) \/ TextOf(domain) = <<>>

\* `if (!this.validateDomainFormat(domain))` at the head of lookupDmarcRecord
LookupRefused(domain) == ~validateDomainFormat(domain)

\* what dns.resolveTxt may answer: the TXT records, each a list of chunks, or
\* an error code
DmarcChunk == <<"v", "=", "DMARC1", ";", "p", "=", "reject">>
TxtAnswer(records) == [code |-> "", records |-> records]
TxtError(code) == [code |-> code, records |-> <<>>]
ResolveTxtAnswers ==
    {TxtAnswer(<<>>),
     TxtAnswer(<< <<<<"spf1">>>> >>),
     TxtAnswer(<< <<<<"spf1">>>>, <<DmarcChunk>> >>),
     TxtAnswer(<< <<<<"v", "=">>, <<"DMARC1", ";", "p", "=", "none">>>> >>),
     TxtError("ENOTFOUND"), TxtError("ENODATA"), TxtError("ETIMEOUT")}

RECURSIVE JoinChunks(_)
JoinChunks(chunks) == IF chunks = <<>> THEN <<>> ELSE Head(chunks) \o JoinChunks(Tail(chunks))

Found(record) == [ok |-> TRUE, found |-> TRUE, record |-> record]
NotFound == [ok |-> TRUE, found |-> FALSE, record |-> <<>>]

\* the loop over txtRecords: the first record that starts with v=DMARC1
RECURSIVE FirstDmarcRecord(_)
FirstDmarcRecord(records) ==
    IF records = <<>> THEN NotFound
    ELSE LET recordString == JoinChunks(Head(records)) IN
         IF StartsWithVersion(recordString) THEN Found(recordString)
         ELSE FirstDmarcRecord(Tail(records))

\* lookupDmarcRecord after resolveTxt has answered
LookupResult(answer) ==
    IF answer.code = "" THEN FirstDmarcRecord(answer.records)
    ELSE IF answer.code \in {"ENOTFOUND", "ENODATA"} THEN NotFound
    ELSE Thrown("DNS lookup failed")

Domains == {Text(v) : v \in UNION {[1..n -> DomainPieces] : n \in 0..MaxDomainLen}}
              \cup {NotAString}

\* lookupDmarcRecord up to its await on dns.resolveTxt
LookupDmarcRecordStart(r, domain) ==
    /\ \A q \in Requests : req[q].pc = "idle"
    /\ IF LookupRefused(domain)
       THEN /\ ret' = [op |-> "lookupDmarcRecord", domain |-> domain, resolved |-> FALSE,
                       result |-> Thrown("Invalid domain format")]
            /\ req' = req
       ELSE /\ req' = [req EXCEPT ![r] =
                          [pc |-> "resolving", domain |-> domain,
                           query |-> <<"_dmarc", ".">> \o Trim(TextOf(domain))]]
            /\ ret' = ret
    /\ UNCHANGED <<ui, ledgerVars, cacheVars, storage, started, accepted, increments,
                   sortVars, regVars>>

\* dns.resolveTxt answers
LookupDmarcRecordFinish(r, answer) ==
    /\ req[r].pc = "resolving"
    /\ req' = [req EXCEPT ![r] = Idle]
    /\ ret' = [op |-> "lookupDmarcRecord", domain |-> req[r].domain, resolved |-> TRUE,
               result |-> LookupResult(answer)]
    /\ UNCHANGED <<ui, ledgerVars, cacheVars, storage, started, accepted, increments,
                   sortVars, regVars>>

\* DmarcValidatorImpl.validateDomain: the result is built and the method throws
validateDomain(domain) ==
    Thrown("validateDomain not yet implemented - requires DNS service integration")

\* a call of validateDomain for a domain about which the DNS would answer
ValidateDomain(domain, answer) ==
    /\ \A q \in Requests : req[q].pc = "idle"
    /\ ret' = [op |-> "validateDomain", domain |-> domain, dns |-> answer,
               result |-> validateDomain(domain)]
    /\ UNCHANGED <<ui, ledgerVars, cacheVars, sysVars, sortVars, regVars>>

---------------------------------------------------------------------------
(* Initial states *)

InitLedger == voteRestrictions = <<>> /\ recorded = {}

InitCache ==
    /\ cache = EmptyMap
    /\ now = 0
    /\ ticks = 0
    /\ setInfo = EmptyMap
    /\ call = [c \in Callers |-> Idle]
    /\ computeCalls = [c \in Callers |-> 0]

InitSys ==
    /\ storage = EmptyMap
    /\ req = [r \in Requests |-> Idle]
    /\ started = 0
    /\ accepted = [p \in VotePairs |-> 0]
    /\ increments = [p \in VotePairs |-> 0]

InitSort == sortIn = <<>> /\ sortOut = <<>>

\* no page is open in the browser
InitUi == ui = NoUi

InitReg ==
    /\ base = [d \in DOMAIN storage |-> storage[d].upvotes]
    /\ returned = [d \in DOMAIN storage |-> <<>>]

(* A freshly constructed service, nothing stored, no call made *)
InitService == InitLedger /\ InitCache /\ InitSys /\ InitSort /\ InitReg /\ ret = NoRet /\ InitUi

---------------------------------------------------------------------------
(* The vote ledger on its own: any sequence of recordVote and clearAllVotes *)

NextLedger ==
    \/ \E ip \in LedgerIps, d \in LedgerDomains : RecordVote(ip, d)
    \/ ClearAllVotes

SpecLedger ==
    /\ InitService
    /\ [][NextLedger]_vars

---------------------------------------------------------------------------
(* The cache on its own: any sequence of its synchronous operations, with the
   clock advancing in between *)

NextCache ==
    \/ \E k \in CacheKeys, v \in CacheData, ttl \in TtlArgs : CSet(k, v, ttl)
    \/ \E k \in CacheKeys : CGetWithInfo(k)
    \/ \E k \in CacheKeys : CGet(k)
    \/ \E k \in CacheKeys : CHas(k)
    \/ \E k \in CacheKeys : CDelete(k)
    \/ CClear
    \/ CCleanup
    \/ \E d \in TickSteps : Tick(d)

SpecCache ==
    /\ InitService
    /\ [][NextCache]_vars

(* getOrSet called by concurrent callers, with set and delete by others *)

GetOrSetKeys == {"k1"}

NextGetOrSet ==
    \/ \E c \in Callers, k \in GetOrSetKeys, ttl \in TtlArgs : GetOrSetBegin(c, k, ttl)
    \/ \E c \in Callers, v \in CacheData : GetOrSetResolve(c, v)
    \/ \E c \in Callers : GetOrSetReject(c)
    \/ \E k \in GetOrSetKeys, v \in JsValues : CSet(k, v, Ttl(TicksPerMinute))
    \/ \E k \in GetOrSetKeys : CDelete(k)
    \/ \E d \in TickSteps : Tick(d)

SpecGetOrSet ==
    /\ InitService
    /\ [][NextGetOrSet]_vars

---------------------------------------------------------------------------
(* GET /registry on any listing *)

NextSort == GetDomainRegistry

InitRegistry ==
    /\ InitLedger /\ InitCache /\ InitSys /\ InitReg /\ InitUi /\ ret = NoRet
    /\ \E n \in 0..MaxLen :
          \E u \in [1..n -> 0..MaxCount], t \in [1..n -> 0..MaxStamp] :
              sortIn = SortInput(n, u, t)
    /\ sortOut = <<>>

SpecSort == InitRegistry /\ [][NextSort]_vars

---------------------------------------------------------------------------
(* The registry service called by concurrent callers *)

RegistryDomains == {"a.com", "b.com"}

\* the collections the service may find when its first call arrives
RegistryStorages ==
    {EmptyMap,
     [d \in RegistryDomains |->
         NewDocument(d, IF d = "a.com" THEN InvalidShape ELSE CompliantShape, 0)],
     [d \in RegistryDomains |->
         NewDocument(d, IF d = "a.com" THEN WeakShape ELSE MissingShape, 0)]}

InitStored ==
    /\ InitLedger /\ InitCache /\ InitSort /\ InitUi /\ ret = NoRet
    /\ storage \in RegistryStorages
    /\ req = [r \in Requests |-> Idle]
    /\ started = 0
    /\ accepted = [p \in VotePairs |-> 0]
    /\ increments = [p \in VotePairs |-> 0]
    /\ InitReg

\* storing, removing, upvoting and listing
NextListing ==
    \/ \E r \in Requests, d \in RegistryDomains :
          \E result \in StoreResults(d, now) : StoreDomainResultStart(r, result)
    \/ \E r \in Requests : StoreServesGet(r)
    \/ \E r \in Requests : StoreDomainResultWrite(r)
    \/ \E r \in Requests : StoreServesWrite(r)
    \/ \E r \in Requests : StoreDomainResultFinish(r)
    \/ \E r \in Requests, d \in RegistryDomains : RemoveDomainStart(r, d)
    \/ \E r \in Requests : StoreServesDelete(r)
    \/ \E r \in Requests : RemoveDomainFinish(r)
    \/ \E r \in Requests, d \in RegistryDomains : IncrementUpvotesStart(r, d)
    \/ \E r \in Requests : TransactionUpdate(r)
    \/ \E r \in Requests : StoreServesCommit(r)
    \/ \E r \in Requests : IncrementUpvotesFinish(r)
    \/ \E r \in Requests : StoreCallRejected(r)
    \/ ListNonCompliantDomains

SpecListing == InitStored /\ [][NextListing]_vars

\* concurrent upvote increments, with removals
NextIncrement ==
    \/ \E r \in Requests, d \in RegistryDomains : IncrementUpvotesStart(r, d)
    \/ \E r \in Requests : StoreServesGet(r)
    \/ \E r \in Requests : TransactionUpdate(r)
    \/ \E r \in Requests : StoreServesCommit(r)
    \/ \E r \in Requests : IncrementUpvotesFinish(r)
    \/ \E r \in Requests, d \in RegistryDomains : RemoveDomainStart(r, d)
    \/ \E r \in Requests : StoreServesDelete(r)
    \/ \E r \in Requests : RemoveDomainFinish(r)
    \/ \E r \in Requests : StoreCallRejected(r)

SpecIncrement == InitStored /\ [][NextIncrement]_vars

\* cache-first lookups of one domain among stores, invalidations and the passing
\* of the TTL
LookupDomains == {"a.com"}

NextLookup ==
    \/ \E r \in Requests, d \in LookupDomains : GetDomainResultStart(r, d)
    \/ \E r \in Requests : StoreServesGet(r)
    \/ \E r \in Requests : GetDomainResultFinish(r)
    \/ \E r \in Requests, d \in LookupDomains :
          \E result \in StoreResults(d, now) : StoreDomainResultStart(r, result)
    \/ \E r \in Requests : StoreDomainResultWrite(r)
    \/ \E r \in Requests : StoreServesWrite(r)
    \/ \E r \in Requests : StoreDomainResultFinish(r)
    \/ \E r \in Requests, d \in LookupDomains : RemoveDomainStart(r, d)
    \/ \E r \in Requests : StoreServesDelete(r)
    \/ \E r \in Requests : RemoveDomainFinish(r)
    \/ \E r \in Requests : StoreCallRejected(r)
    \/ Tick(cacheExpirationMinutes * TicksPerMinute + 1)

SpecLookup == InitStored /\ [][NextLookup]_vars

\* results stored and upvotes counted for one domain, from any collection; one
\* call more than MaxCalls may start, so that two stores can overlap and an
\* upvote follow the first
InitStoring ==
    /\ InitLedger /\ InitCache /\ InitSort /\ InitUi /\ ret = NoRet
    /\ storage \in RegistryStorages
    /\ req = [r \in Requests |-> Idle]
    /\ started = -1
    /\ accepted = [p \in VotePairs |-> 0]
    /\ increments = [p \in VotePairs |-> 0]
    /\ InitReg

NextStoring ==
    \/ \E r \in Requests, d \in LookupDomains :
          \E result \in StoreResults(d, now) : StoreDomainResultStart(r, result)
    \/ \E r \in Requests : StoreServesGet(r)
    \/ \E r \in Requests : StoreDomainResultWrite(r)
    \/ \E r \in Requests : StoreServesWrite(r)
    \/ \E r \in Requests : StoreDomainResultFinish(r)
    \/ \E r \in Requests, d \in LookupDomains : IncrementUpvotesStart(r, d)
    \/ \E r \in Requests : TransactionUpdate(r)
    \/ \E r \in Requests : StoreServesCommit(r)
    \/ \E r \in Requests : IncrementUpvotesFinish(r)
    \/ \E r \in Requests : StoreCallRejected(r)

SpecStoring == InitStoring /\ [][NextStoring]_vars

---------------------------------------------------------------------------
(* The controller's validate, recheck, details and registry requests *)

NextRecheck ==
    \/ \E r \in Requests, d \in RegistryDomains \cup {""} : ValidateDomainStart(r, d)
    \/ \E r \in Requests, d \in RegistryDomains :
          \E result \in ValidatorResults(d, now) : ValidateDomainFinish(r, result)
    \/ \E r \in Requests, d \in RegistryDomains : RecheckDomainStart(r, d)
    \/ \E r \in Requests, d \in RegistryDomains :
          \E result \in ValidatorResults(d, now) : RecheckDomainValidated(r, result)
    \/ \E r \in Requests : StoreServesDelete(r)
    \/ \E r \in Requests : RecheckDomainFinish(r)
    \/ \E r \in Requests, d \in RegistryDomains : GetDomainDetailsStart(r, d)
    \/ \E r \in Requests : StoreServesGet(r)
    \/ \E r \in Requests : GetDomainDetailsFinish(r)
    \/ \E r \in Requests : HandlerFails(r)
    \/ GetRegistry
    \/ Tick(1)

SpecRecheck == InitStored /\ [][NextRecheck]_vars

---------------------------------------------------------------------------
(* Upvote requests seen from their headers *)

NextClientIp ==
    \/ \E r \in Requests, request \in HttpRequests : UpvoteFromRequest(r, request, "a.com")
    \/ \E r \in Requests : UpvoteFromRequestFound(r)
    \/ \E r \in Requests, status \in {404, 500} : UpvoteFromRequestRefused(r, status)

SpecClientIp == InitService /\ [][NextClientIp]_vars

---------------------------------------------------------------------------
(* Calls of the record parser *)

NextParse ==
    \/ /\ ret.op = "none"
       /\ \E record \in {NotAString, Text(<<>>), Text(<<"invalid">>)} : ParseDmarcRecord(record)
    \/ /\ ret.op = "none"
       /\ \E first \in FirstSegments, n \in 0..MaxSegments :
             \E later \in [1..n -> LaterSegments] : ParseRecordOf(<<first>> \o later)

SpecParse == InitService /\ [][NextParse]_vars

---------------------------------------------------------------------------
(* Calls of the policy evaluator *)

NextEvaluate ==
    /\ ret.op = "none"
    /\ \E policy \in EvaluationPolicies : EvaluatePolicy(policy)

SpecEvaluate == InitService /\ [][NextEvaluate]_vars

---------------------------------------------------------------------------
(* One call of the DNS service or of the validator for a domain *)

NothingCalled == ret.op = "none" /\ \A q \in Requests : req[q].pc = "idle"

NextDns ==
    \/ /\ NothingCalled
       /\ \E r \in Requests, domain \in Domains : LookupDmarcRecordStart(r, domain)
    \/ \E r \in Requests, answer \in ResolveTxtAnswers : LookupDmarcRecordFinish(r, answer)
    \/ /\ NothingCalled
       /\ \E domain \in Domains, answer \in ResolveTxtAnswers : ValidateDomain(domain, answer)

SpecDns == InitService /\ [][NextDns]_vars

---------------------------------------------------------------------------
(* The browser. A React state of type `T | null` is a sequence: empty for
   null, one element for a value. A fetch is a wait between two steps of a
   handler; what comes back is the server's answer or a network failure. *)

Nothing == <<>>
Just(v) == <<v>>

UiDomains == {"a.com", "b.com"}

Recommended(issue, recommendation) ==
    [type |-> issue.type, severity |-> issue.severity, message |-> issue.message,
     recommendation |-> recommendation]

\* the issue lists a validation result may carry: none; no record; a policy of
\* none; a policy of none with a malformed reporting address; a malformed
\* reporting address under a strict policy
IssueLists ==
    {<<>>,
     <<Issue("missing_record", "error", "No DMARC record found")>>,
     <<Issue("weak_policy", "warning", "policy none")>>,
     <<Issue("weak_policy", "warning", "policy none"),
       Issue("syntax_error", "error", "Invalid reporting address format")>>,
     <<Issue("syntax_error", "error", "Invalid reporting address format")>>}

HasError(issues) == \E i \in DOMAIN issues : issues[i].severity = "error"

\* the ValidationResult objects the server may send for a domain at instant t:
\* isValid = no issue of severity error; without a record the one issue is
\* missing_record
ServerResults(d, t) ==
    {[domain |-> d, dmarcRecord |-> record, isValid |-> ~HasError(issues),
      issues |-> issues, checkTimestamp |-> t] :
        <<record, issues>> \in
            {<<JsNull, <<Issue("missing_record", "error", "No DMARC record found")>> >>}
            \cup {<<"v=DMARC1; ...", issues>> : issues \in
                    {l \in IssueLists :
                        \A i \in DOMAIN l : l[i].type # "missing_record"}}}

\* what a fetch comes back with: a 2xx response with a JSON body, another
\* response, or a rejection (network error)
OkResponse(body) == [kind |-> "ok", body |-> Just(body)]
StatusResponse == [kind |-> "status", body |-> Nothing]
NetworkError == [kind |-> "network", body |-> Nothing]

ValidateResponses(d, t) ==
    {OkResponse(result) : result \in ServerResults(d, t)} \cup {StatusResponse, NetworkError}

\* mockResult of the catch blocks of Home
MockResult(domain, t) ==
    [domain |-> domain, dmarcRecord |-> JsNull, isValid |-> FALSE,
     issues |-> <<Issue("missing_record", "error", "No DMARC record found for this domain")>>,
     checkTimestamp |-> t]

---------------------------------------------------------------------------
(* Home (app/page.tsx): handleDomainSubmit *)

HomeMounted ==
    [page |-> "home", validationResult |-> Nothing, isLoading |-> FALSE,
     fetch |-> "idle", domain |-> "", received |-> {}]

\* handleDomainSubmit up to `await fetch('/api/domains/validate')`
HandleDomainSubmitStart(domain) ==
    /\ ui.fetch = "idle"
    /\ started < MaxCalls
    /\ started' = started + 1
    /\ ui' = [ui EXCEPT !.isLoading = TRUE, !.fetch = "awaiting", !.domain = domain]
    /\ ret' = NoRet
    /\ UNCHANGED <<ledgerVars, cacheVars, storage, req, accepted, increments, sortVars,
                   regVars>>

\* the fetch settles: `if (!response.ok) throw`, the catch block's mock result,
\* `finally { setIsLoading(false) }`. `received` records what the server sent.
HandleDomainSubmitFinish(response) ==
    /\ ui.fetch = "awaiting"
    /\ LET result == IF response.kind = "ok" THEN response.body[1]
                     ELSE MockResult(ui.domain, now) IN
       /\ ui' = [ui EXCEPT !.validationResult = Just(result), !.isLoading = FALSE,
                           !.fetch = "idle",
                           !.received = ui.received \cup Range(response.body)]
       /\ ret' = [op |-> "handleDomainSubmit", domain |-> ui.domain,
                  response |-> response.kind, threw |-> FALSE, value |-> result]
    /\ UNCHANGED <<ledgerVars, cacheVars, sysVars, sortVars, regVars>>

InitHome ==
    /\ InitLedger /\ InitCache /\ InitSys /\ InitSort /\ InitReg /\ ret = NoRet
    /\ ui = HomeMounted

NextHome ==
    \/ \E domain \in UiDomains : HandleDomainSubmitStart(domain)
    \/ \E response \in ValidateResponses(ui.domain, now) : HandleDomainSubmitFinish(response)

SpecHome == InitHome /\ [][NextHome]_vars

---------------------------------------------------------------------------
(* DomainSubmissionForm: the text field and handleSubmit. The text typed is a
   sequence of pieces, as a domain is above, with an upper-case letter added. *)

FormPieces == {"a", "A", "-", ".", " ", "com"}

FormTexts == UNION {[1..n -> FormPieces] : n \in 0..MaxDomainLen}

\* String.prototype.toLowerCase on the pieces of a form text
toLowerCase(v) == [i \in DOMAIN v |-> IF v[i] = "A" THEN "a" ELSE v[i]]

\* /^label(\.label)*$/ with label = [a-zA-Z0-9]([a-zA-Z0-9-]{0,61}[a-zA-Z0-9])?,
\* and `domain.length <= 253`
FormDomainFormat(domain) ==
    LET labels == SplitOn(domain, ".") IN
    /\ \A i \in DOMAIN labels : LabelMatches(labels[i])
    /\ TextLength(domain) <= 253

FormMounted ==
    [page |-> "form", domain |-> <<>>, error |-> "", typed |-> FALSE,
     pending |-> Nothing, submitted |-> <<>>]

\* handleDomainChange: the user has typed a text into the field
HandleDomainChange(value) ==
    /\ ui.pending = Nothing
    /\ ui' = [ui EXCEPT !.domain = value, !.error = "", !.typed = TRUE]
    /\ ret' = NoRet
    /\ UNCHANGED <<ledgerVars, cacheVars, sysVars, sortVars, regVars>>

\* handleSubmit up to `await onSubmit(trimmedDomain)`, or to one of its early
\* returns; `submitted` records the arguments onSubmit was called with
HandleSubmit ==
    LET trimmedDomain == toLowerCase(Trim(ui.domain))
        Refused(message) ==
            /\ ui' = [ui EXCEPT !.error = message]
            /\ ret' = [op |-> "handleSubmit", input |-> ui.domain, called |-> FALSE,
                       trimmed |-> trimmedDomain]
    IN
    /\ ui.typed
    /\ ui.pending = Nothing
    /\ ret.op = "none"
    /\ IF trimmedDomain = <<>>
       THEN Refused("Please enter a domain name")
       ELSE IF ~FormDomainFormat(trimmedDomain)
       THEN Refused("Please enter a valid domain name (e.g., example.com)")
       ELSE /\ ui' = [ui EXCEPT !.error = "", !.pending = Just(trimmedDomain),
                                !.submitted = Append(ui.submitted, trimmedDomain)]
            /\ ret' = [op |-> "handleSubmit", input |-> ui.domain, called |-> TRUE,
                       trimmed |-> trimmedDomain]
    /\ UNCHANGED <<ledgerVars, cacheVars, sysVars, sortVars, regVars>>

\* onSubmit resolves: `setDomain('')`
OnSubmitResolves ==
    /\ ui.pending # Nothing
    /\ ui' = [ui EXCEPT !.domain = <<>>, !.pending = Nothing]
    /\ UNCHANGED <<ret, ledgerVars, cacheVars, sysVars, sortVars, regVars>>

\* onSubmit rejects with an Error: `setError(err.message)`
OnSubmitRejects(message) ==
    /\ ui.pending # Nothing
    /\ ui' = [ui EXCEPT !.error = message, !.pending = Nothing]
    /\ UNCHANGED <<ret, ledgerVars, cacheVars, sysVars, sortVars, regVars>>

InitForm ==
    /\ InitLedger /\ InitCache /\ InitSys /\ InitSort /\ InitReg /\ ret = NoRet
    /\ ui = FormMounted

NextForm ==
    \/ /\ ~ui.typed
       /\ \E value \in FormTexts : HandleDomainChange(value)
    \/ HandleSubmit
    \/ OnSubmitResolves
    \/ OnSubmitRejects("Failed to validate domain")

SpecForm == InitForm /\ [][NextForm]_vars

---------------------------------------------------------------------------
(* DomainRegistry (components/DomainRegistry.tsx) with the onUpvote and
   onRecheck handlers Home passes to it *)

\* the result without a record among ServerResults(d, t)
MissingResult(d, t) ==
    [domain |-> d, dmarcRecord |-> JsNull, isValid |-> FALSE,
     issues |-> <<Issue("missing_record", "error", "No DMARC record found")>>,
     checkTimestamp |-> t]

\* getDmarcStatus of the component
getDmarcStatus(result) ==
    IF ~Truthy(result.dmarcRecord) THEN "missing"
    ELSE IF \E i \in DOMAIN result.issues :
               result.issues[i].type = "weak_policy" /\ result.issues[i].severity = "warning"
    THEN "weak"
    ELSE "invalid"

\* an entry of GET /registry
RegistryEntry(d, upvotes, checked) ==
    [domain |-> d, lastChecked |-> checked, upvotes |-> upvotes, dmarcStatus |-> "missing",
     validationResult |-> MissingResult(d, checked)]

\* the bodies GET /registry may answer with: entries of distinct domains, with
\* few votes and check instants up to the opening of the page, in any order
RegistryBodies ==
    {<<>>}
    \cup {<<RegistryEntry(d, u, t)>> : d \in UiDomains, u \in 0..1, t \in -1..0}
    \cup {<<RegistryEntry(d[1], u[1], t[1]), RegistryEntry(d[2], u[2], t[2])>> :
            d \in {<<"a.com", "b.com">>, <<"b.com", "a.com">>},
            u \in (0..1) \X (0..1), t \in (-1..0) \X (-1..0)}

\* mockDomains of fetchDomains' catch block; the dates lie before the page was
\* opened
mockDomains ==
    <<[domain |-> "example.com", lastChecked |-> -1, upvotes |-> 5, dmarcStatus |-> "missing",
       validationResult |-> MissingResult("example.com", -1)],
      [domain |-> "test.org", lastChecked |-> -2, upvotes |-> 3, dmarcStatus |-> "weak",
       validationResult |->
           [domain |-> "test.org", dmarcRecord |-> "v=DMARC1; p=none;", isValid |-> FALSE,
            issues |-> <<Issue("weak_policy", "warning", "DMARC policy is set to \"none\"")>>,
            checkTimestamp |-> -2]]>>

\* the bodies POST /:domain/upvote answers 201 with
UpvoteBodies ==
    {[success |-> TRUE, newUpvoteCount |-> 1], [success |-> FALSE, newUpvoteCount |-> 1]}

RegistryMounted ==
    [page |-> "registry", domains |-> <<>>, isLoading |-> TRUE, error |-> Nothing,
     loaded |-> FALSE, votingDomain |-> Nothing, recheckingDomain |-> Nothing]

Displayed(d) == \E i \in DOMAIN ui.domains : ui.domains[i].domain = d

\* history only: the vote count shown for a domain, -1 when it is not listed
DisplayedCount(domains, d) ==
    IF \E i \in DOMAIN domains : domains[i].domain = d
    THEN (CHOOSE e \in Range(domains) : e.domain = d).upvotes
    ELSE -1

\* fetchDomains, called once by useEffect: the list sorted by data.sort, or on
\* any failure the error message and the mock list
FetchDomains(response) ==
    /\ ~ui.loaded
    /\ ui' = IF response.kind = "ok"
             THEN [ui EXCEPT !.domains = ArraySort(response.body[1]), !.isLoading = FALSE,
                             !.loaded = TRUE]
             ELSE [ui EXCEPT !.domains = mockDomains, !.isLoading = FALSE, !.loaded = TRUE,
                             !.error = Just("Failed to fetch domains")]
    /\ ret' = [op |-> "fetchDomains", response |-> response.kind]
    /\ UNCHANGED <<ledgerVars, cacheVars, sysVars, sortVars, regVars>>

\* handleUpvote up to `await onUpvote(domain)`: Home.handleUpvote has called fetch
RegistryUpvoteStart(domain) ==
    /\ ui.loaded
    /\ Displayed(domain)
    /\ ui.votingDomain = Nothing
    /\ started < MaxCalls
    /\ started' = started + 1
    /\ ui' = [ui EXCEPT !.votingDomain = Just(domain)]
    /\ ret' = NoRet
    /\ UNCHANGED <<ledgerVars, cacheVars, storage, req, accepted, increments, sortVars,
                   regVars>>

\* prevDomains.map(d => d.domain === domain ? { ...d, upvotes: d.upvotes + 1 } : d)
UpvotedList(domains, domain) ==
    [i \in DOMAIN domains |->
        IF domains[i].domain = domain
        THEN [domains[i] EXCEPT !.upvotes = domains[i].upvotes + 1]
        ELSE domains[i]]

\* the fetch settles. Home.handleUpvote throws on `!response.ok` inside its own
\* try and its catch only logs, so onUpvote resolves whatever came back; the
\* component then adds one to the entry's count and sorts the list.
RegistryUpvoteFinish(response) ==
    /\ ui.votingDomain # Nothing
    /\ LET domain == ui.votingDomain[1]
           domains == ArraySort(UpvotedList(ui.domains, domain)) IN
       /\ ui' = [ui EXCEPT !.domains = domains, !.votingDomain = Nothing]
       /\ ret' = [op |-> "handleUpvote", domain |-> domain, response |-> response.kind,
                  accepted |-> response.kind = "ok" /\ response.body[1].success,
                  before |-> DisplayedCount(ui.domains, domain),
                  after |-> DisplayedCount(domains, domain)]
    /\ UNCHANGED <<ledgerVars, cacheVars, sysVars, sortVars, regVars>>

\* handleRecheck up to `await onRecheck(domain)`: Home.handleRecheck has called
\* fetch
RegistryRecheckStart(domain) ==
    /\ ui.loaded
    /\ Displayed(domain)
    /\ ui.recheckingDomain = Nothing
    /\ started < MaxCalls
    /\ started' = started + 1
    /\ ui' = [ui EXCEPT !.recheckingDomain = Just(domain)]
    /\ ret' = NoRet
    /\ UNCHANGED <<ledgerVars, cacheVars, storage, req, accepted, increments, sortVars,
                   regVars>>

\* the entry of a domain rechecked with a result that is not valid
RecheckedEntry(entry, result) ==
    [entry EXCEPT !.lastChecked = result.checkTimestamp, !.validationResult = result,
                  !.dmarcStatus = getDmarcStatus(result)]

\* the fetch settles: Home.handleRecheck returns the body or, on any failure,
\* its mock result; the component drops the entry of a valid result and
\* rewrites the entry otherwise
RegistryRecheckFinish(response) ==
    /\ ui.recheckingDomain # Nothing
    /\ LET domain == ui.recheckingDomain[1]
           result == IF response.kind = "ok" THEN response.body[1]
                     ELSE MockResult(domain, now)
           Others(entry) == entry.domain # domain
           domains == IF result.isValid THEN SelectSeq(ui.domains, Others)
                      ELSE [i \in DOMAIN ui.domains |->
                               IF ui.domains[i].domain = domain
                               THEN RecheckedEntry(ui.domains[i], result)
                               ELSE ui.domains[i]] IN
       /\ ui' = [ui EXCEPT !.domains = domains, !.recheckingDomain = Nothing]
       /\ ret' = [op |-> "handleRecheck", domain |-> domain, response |-> response.kind,
                  result |-> result]
    /\ UNCHANGED <<ledgerVars, cacheVars, sysVars, sortVars, regVars>>

InitRegistryUi ==
    /\ InitLedger /\ InitCache /\ InitSys /\ InitSort /\ InitReg /\ ret = NoRet
    /\ ui = RegistryMounted

NextRegistryUi ==
    \/ /\ ~ui.loaded
       /\ \E response \in {OkResponse(body) : body \in RegistryBodies}
                          \cup {StatusResponse, NetworkError} : FetchDomains(response)
    \/ \E domain \in UiDomains \cup {"example.com", "test.org"} : RegistryUpvoteStart(domain)
    \/ \E response \in {OkResponse(body) : body \in UpvoteBodies}
                       \cup {StatusResponse, NetworkError} : RegistryUpvoteFinish(response)
    \/ \E domain \in UiDomains \cup {"example.com", "test.org"} : RegistryRecheckStart(domain)
    \/ /\ ui.recheckingDomain # Nothing
       /\ \E response \in ValidateResponses(ui.recheckingDomain[1], now) :
             RegistryRecheckFinish(response)
    \/ Tick(1)

SpecRegistryUi == InitRegistryUi /\ [][NextRegistryUi]_vars

---------------------------------------------------------------------------
(* The running server: upvote requests against the store, the cache and the
   ledger, from any collection the store may hold at start *)

Next ==
    \/ \E r \in Requests, ip \in SysIps, d \in SysDomains : UpvoteStart(r, ip, d)
    \/ \E r \in Requests : UpvoteAlreadyVoted(r)
    \/ \E r \in Requests : UpvoteLookupDone(r)
    \/ \E r \in Requests : UpvoteIncrementDone(r)
    \/ \E r \in Requests : UpvoteStorageError(r)
    \/ \E d \in {1, cacheExpirationMinutes * TicksPerMinute} : Tick(d)

Init ==
    /\ InitLedger /\ InitCache /\ InitSort /\ InitUi /\ ret = NoRet
    /\ storage \in InitialStorages
    /\ req = [r \in Requests |-> Idle]
    /\ started = 0
    /\ accepted = [p \in VotePairs |-> 0]
    /\ increments = [p \in VotePairs |-> 0]
    /\ InitReg

Spec == Init /\ [][Next]_vars

---------------------------------------------------------------------------
(* Claims about the vote ledger (SpecLedger) *)

\* C2: hasVoted is true exactly for the pairs recorded since the last clear, and
\* getVoteCount is the number of distinct such pairs, for all strings ip and domain.
C2_LedgerIsExactlyRecordedPairs ==
    /\ \A ip \in LedgerIps, d \in LedgerDomains :
          hasVoted(voteRestrictions, ip, d) <=> <<ip, d>> \in recorded
    /\ getVoteCount(voteRestrictions) = Cardinality(recorded)

\* C3: recordVote is idempotent: a repeated recordVote(ip, domain) leaves the ledger
\* as it was, getVoteCount does not change and hasVoted(ip, domain) stays true.
C3_RecordVoteIdempotent ==
    ret.op = "recordVote" =>
        /\ hasVoted(voteRestrictions, ret.ip, ret.domain)
        /\ ret.repeated =>
              /\ voteRestrictions = ret.before
              /\ getVoteCount(voteRestrictions) = getVoteCount(ret.before)

C3_Witness ==
    /\ ret.op = "recordVote"
    /\ ret.repeated
    /\ getVoteCount(voteRestrictions) >= 2

---------------------------------------------------------------------------
(* Claims about getOrSet (SpecGetOrSet) *)

\* C4: getOrSet(k, f) called while k holds a live entry returns the cached value and
\* never invokes f, whatever the cached value is (null and the other falsy values
\* included).
C4_LiveEntryReturnedWithoutCompute ==
    /\ ret.op = "getOrSet" /\ ret.wasLive =>
          /\ ret.hit
          /\ computeCalls[ret.caller] = 0
          /\ ret.key \in DOMAIN cache
          /\ ret.value = cache[ret.key].data
    /\ \A c \in Callers : call[c].pc = "computing" => ~call[c].wasLive

C4_Witness ==
    /\ ret.op = "getOrSet"
    /\ ret.wasLive
    /\ ret.hit
    /\ ret.value = JsNull

\* the TTL the caller asked for, in ticks (60 minutes when none was given)
RequestedTtl(ttl) ==
    IF ttl.given THEN ttl.ticks ELSE defaultTtlMinutes * TicksPerMinute

\* C5: getOrSet(k, f) on an absent or expired k invokes f exactly once, stores f's
\* result under k with the given TTL before returning it, and a get(k) right after
\* returns that value.
C5_MissComputesOnceAndStoresWithGivenTtl ==
    ret.op = "getOrSet" /\ ~ret.wasLive =>
        /\ ~ret.hit
        /\ computeCalls[ret.caller] = 1
        /\ ret.key \in DOMAIN cache
        /\ cache[ret.key].data = ret.value
        /\ cache[ret.key].expiresAt = now + RequestedTtl(ret.ttl)
        /\ get(cache, ret.key, now) = ret.value

\* C6: two getOrSet calls for the same absent key never interleave between the
\* cache check and the store, so computeFn runs once in total.
C6_CheckComputeStoreIsCritical ==
    \A c1 \in Callers, c2 \in Callers :
        (c1 # c2 /\ call[c1].pc = "computing" /\ call[c2].pc = "computing")
            => call[c1].key # call[c2].key

---------------------------------------------------------------------------
(* Claims about expiry (SpecCache) *)

ReadOps == {"get", "has", "getWithInfo"}

\* what the caller of a read learns about presence
ReportsPresent(r) == IF r.op = "get" THEN r.data # JsNull ELSE r.found

\* C7: a key set at T with a caller-supplied TTL of t minutes (t >= 0, 0 and
\* fractions included) is reported present by get and has at every read time up to
\* T + t minutes and absent after, until it is set again.
C7_PresentUntilDeadlineOfGivenTtl ==
    (/\ ret.op \in ReadOps
     /\ ret.stored
     /\ ret.info.ttl.given
     /\ ret.held # JsNull)
        => (ReportsPresent(ret) <=> now <= ret.info.at + ret.info.ttl.ticks)

\* C8: a stored entry is reported present by get, has, getWithInfo and getOrSet if
\* and only if now <= expiresAt, whether or not cleanup has run; no expired value is
\* returned to a caller.
C8_PresentIffNotPastExpiry ==
    /\ \A k \in DOMAIN cache :
          LET live == now <= cache[k].expiresAt IN
          /\ getWithInfo(cache, k, now).found <=> live
          /\ getWithInfo(cache, k, now).data = (IF live THEN cache[k].data ELSE JsNull)
          /\ has(cache, k, now).found <=> live
          /\ get(cache, k, now) = (IF live THEN cache[k].data ELSE JsNull)
          /\ GetOrSetHit(getWithInfo(cache, k, now)) <=> live
    /\ (ret.op \in ReadOps /\ ret.stored) =>
          /\ ret.found <=> ret.wasLive
          /\ ret.data = (IF ret.wasLive /\ ret.op # "has" THEN ret.held ELSE JsNull)

C8_Witness ==
    /\ ret.op = "get"
    /\ ret.stored
    /\ ~ret.wasLive
    /\ ret.held = "obj"
    /\ ret.data = JsNull

\* C9: cleanup() removes exactly the entries whose expiresAt is before now, returns
\* how many it removed and leaves every live entry as it was; a second cleanup() at
\* the same instant removes nothing and returns 0.
C9_CleanupRemovesExactlyExpired ==
    ret.op = "cleanup" =>
        /\ DOMAIN cache = {k \in DOMAIN ret.before : ~(ret.before[k].expiresAt < now)}
        /\ \A k \in DOMAIN cache : cache[k] = ret.before[k]
        /\ ret.cleanedCount = Cardinality(DOMAIN ret.before \ DOMAIN cache)
        /\ cleanup(cache, now).cleanedCount = 0
        /\ cleanup(cache, now).cache = cache

C9_Witness ==
    /\ ret.op = "cleanup"
    /\ ret.cleanedCount >= 1
    /\ \E k \in DOMAIN cache : cache[k].expiresAt = now

---------------------------------------------------------------------------
(* Claims about the registry order (SpecSort) *)

Occurrences(list, e) == Cardinality({i \in 1..Len(list) : list[i] = e})

\* C10: for any finite list of registry entries in any order, GET /registry returns
\* a permutation of it that is non-increasing in upvotes and, among entries of equal
\* upvotes, non-increasing in lastChecked.
C10_RegistrySortedPermutation ==
    ret.op = "getDomainRegistry" =>
        /\ Len(sortOut) = Len(sortIn)
        /\ \A e \in Range(sortIn) \cup Range(sortOut) :
              Occurrences(sortOut, e) = Occurrences(sortIn, e)
        /\ \A i \in 1..Len(sortOut), j \in 1..Len(sortOut) :
              i < j =>
                  /\ sortOut[i].upvotes >= sortOut[j].upvotes
                  /\ sortOut[i].upvotes = sortOut[j].upvotes
                        => sortOut[i].lastChecked >= sortOut[j].lastChecked

C10_Witness ==
    /\ ret.op = "getDomainRegistry"
    /\ Len(sortOut) = 3
    /\ sortOut # sortIn
    /\ sortOut[1].upvotes = sortOut[2].upvotes
    /\ sortOut[1].lastChecked > sortOut[2].lastChecked
    /\ sortOut[2].upvotes > sortOut[3].upvotes

\* the place of the entry for `domain` in a list of entries (0 when it has none)
IndexOf(list, domain) ==
    IF \E i \in 1..Len(list) : list[i].domain = domain
    THEN CHOOSE i \in 1..Len(list) : list[i].domain = domain
    ELSE 0

SameSortKey(a, b) == a.upvotes = b.upvotes /\ a.lastChecked = b.lastChecked

\* C11: the registry sort is stable: two entries with identical (upvotes,
\* lastChecked) appear in the output of GET /registry in the same relative order
\* as in the list listNonCompliantDomains returned.
C11_RegistrySortStable ==
    ret.op = "getDomainRegistry" =>
        \A i \in 1..Len(sortIn), j \in 1..Len(sortIn) :
            i < j /\ SameSortKey(sortIn[i], sortIn[j]) =>
                /\ IndexOf(sortOut, sortIn[i].domain) > 0
                /\ IndexOf(sortOut, sortIn[i].domain) < IndexOf(sortOut, sortIn[j].domain)

C11_Witness ==
    /\ ret.op = "getDomainRegistry"
    /\ Len(sortIn) = 3
    /\ sortOut # sortIn
    /\ SameSortKey(sortIn[1], sortIn[3])
    /\ ~SameSortKey(sortIn[1], sortIn[2])
    /\ IndexOf(sortOut, sortIn[1].domain) + 1 = IndexOf(sortOut, sortIn[3].domain)

---------------------------------------------------------------------------
(* Claims about the registry listing (SpecListing) *)

HasErrorIssue(doc) == \E i \in 1..Len(doc.issues) : doc.issues[i] = "error"

ListedDomains(entries) == {entries[i].domain : i \in 1..Len(entries)}

\* C13: after any storeDomainResult, removeDomainFromRegistry and incrementUpvotes
\* calls, listNonCompliantDomains returns an entry for d if and only if the store
\* holds a document for d whose isValid is false; a domain whose latest stored
\* result is valid is never listed.
C13_ListedIffStoredNonCompliant ==
    ret.op = "listNonCompliantDomains" =>
        /\ ListedDomains(ret.entries) = {d \in DOMAIN storage : ~storage[d].isValid}
        /\ Cardinality(ListedDomains(ret.entries)) = Len(ret.entries)

C13_Witness ==
    /\ ret.op = "listNonCompliantDomains"
    /\ "a.com" \in DOMAIN storage
    /\ storage["a.com"].isValid
    /\ storage["a.com"].upvotes = 0
    /\ ListedDomains(ret.entries) = {"b.com"}
    /\ \A r \in Requests : req[r].pc = "idle"

---------------------------------------------------------------------------
(* Claims about concurrent increments (SpecIncrement) *)

\* C16: concurrent incrementUpvotes calls on one domain each read, increment and
\* write as one transaction: the stored count is the initial count plus the number
\* of increments that went through, and the counts returned are pairwise distinct.
C16_IncrementsAtomic ==
    /\ \A d \in DOMAIN storage :
          /\ storage[d].upvotes = base[d] + Len(returned[d])
          /\ \A i \in 1..Len(returned[d]), j \in 1..Len(returned[d]) :
                i # j => returned[d][i] # returned[d][j]
    /\ ret.op = "incrementUpvotes" /\ ret.ok /\ ret.domain \in DOMAIN storage =>
          ret.newUpvotes \in Range(returned[ret.domain])

C16_Witness ==
    \E r1 \in Requests, r2 \in Requests :
        /\ req[r1].pc = "txnCommit"
        /\ req[r2].pc = "txnCommitted"
        /\ req[r1].domain = req[r2].domain
        /\ req[r1].domain \in DOMAIN storage
        /\ req[r1].answer.doc.upvotes < storage[req[r1].domain].upvotes

---------------------------------------------------------------------------
(* Claims about cache-first lookups (SpecLookup) *)

---------------------------------------------------------------------------
(* Claims about validate and recheck requests (SpecRecheck) *)

---------------------------------------------------------------------------
(* Claims about upvote requests (Spec) *)

\* C1: for every (ip, domain), over any interleaving of upvote requests in one
\* process lifetime, at most one request is answered success:true and the stored
\* count is incremented at most once on behalf of the pair.
C1_AtMostOneVotePerPair ==
    \A pair \in VotePairs : accepted[pair] <= 1 /\ increments[pair] <= 1

\* C17: an upvote request from a pair that is already in the ledger always
\* completes with the normal outcome success:false (status 201) and never with
\* an error response; it reports the domain's current stored count and changes
\* neither the ledger nor the stored counts.
C17_AlreadyVotedIsNormalOutcome ==
    [][\A r \in Requests :
          req[r].pc = "countRead" /\ req'[r].pc = "idle" =>
              /\ ret'.status = 201
              /\ ret'.success = FALSE
              /\ ret'.newUpvoteCount =
                    (IF req[r].domain \in DOMAIN storage
                     THEN storage[req[r].domain].upvotes ELSE 0)
              /\ UNCHANGED <<voteRestrictions, storage>>]_vars

\* C18: an upvote for a domain that getDomainResult reports as absent fails with
\* 404 and leaves the ledger and every stored upvote count unchanged, so that
\* the same IP has not voted for the domain and can still vote once it exists.
C18_AbsentDomainIs404WithoutVote ==
    /\ [][\A r \in Requests :
             UpvoteLookupDone(r) /\ req[r].domain \notin DOMAIN storage =>
                 /\ ret'.status = 404
                 /\ ret'.success = FALSE
                 /\ UNCHANGED <<voteRestrictions, storage>>
                 /\ ~hasVoted(voteRestrictions', req[r].ip, req[r].domain)]_vars
    /\ [](ret.op = "upvote" /\ ret.status = 404 =>
             /\ ~hasVoted(voteRestrictions, ret.ip, ret.domain)
             /\ accepted[<<ret.ip, ret.domain>>] = 0
             /\ increments[<<ret.ip, ret.domain>>] = 0)

C18_Witness ==
    /\ ret.op = "upvote"
    /\ ret.status = 404
    /\ \E p \in VotePairs : p[2] # ret.domain /\ accepted[p] = 1 /\ hasVoted(voteRestrictions, p[1], p[2])
    /\ \E d \in DOMAIN storage : storage[d].upvotes = 1

---------------------------------------------------------------------------
(* Claims about the client address (SpecClientIp) *)

\* the first comma-separated element of a value, blanks at both ends left out
FirstElementTrimmed(v) ==
    LET end == CHOOSE i \in 1..(Len(v) + 1) :
                   /\ i = Len(v) + 1 \/ v[i] = ","
                   /\ \A k \in 1..(i - 1) : v[k] # ","
        first == SubSeq(v, 1, end - 1)
        from == CHOOSE a \in 1..(Len(first) + 1) :
                   /\ a = Len(first) + 1 \/ first[a] # " "
                   /\ \A k \in 1..(a - 1) : first[k] = " "
        to == CHOOSE b \in 0..Len(first) :
                   /\ b = 0 \/ first[b] # " "
                   /\ \A k \in (b + 1)..Len(first) : first[k] = " "
    IN Join(SubSeq(first, from, to))

\* the address the claim names, a header counting as present when the request
\* carries it
PresentPrecedence(request) ==
    IF request.forwarded.present THEN FirstElementTrimmed(request.forwarded.value)
    ELSE IF request.realIp.present THEN Join(request.realIp.value)
    ELSE IF request.clientIp.present THEN Join(request.clientIp.value)
    ELSE request.address.text

\* the same, a header counting only when it is present and not empty, and
\* 'unknown' standing for a connection without an address
NonEmptyPrecedence(request) ==
    IF request.forwarded.present /\ request.forwarded.value # <<>>
    THEN FirstElementTrimmed(request.forwarded.value)
    ELSE IF request.realIp.present /\ request.realIp.value # <<>>
    THEN Join(request.realIp.value)
    ELSE IF request.clientIp.present /\ request.clientIp.value # <<>>
    THEN Join(request.clientIp.value)
    ELSE IF request.address.present THEN request.address.text ELSE "unknown"

\* C19 as stated: the client IP used for voting is the first comma-separated
\* element (trimmed) of X-Forwarded-For when that header is present; otherwise
\* X-Real-IP; otherwise X-Client-IP; otherwise the raw connection address; and
\* that value is the one passed to hasVoted and to recordVote.
C19_ClientIpByPresentHeader ==
    /\ \A r \in Requests :
          req[r].pc = "lookup" /\ "request" \in DOMAIN req[r] /\ req[r].request.address.present =>
              /\ req[r].ip = PresentPrecedence(req[r].request)
              /\ ~hasVoted(voteRestrictions, PresentPrecedence(req[r].request), req[r].domain)
    /\ ret.op = "upvote" /\ "request" \in DOMAIN ret /\ ret.status = 201
          /\ ret.request.address.present =>
              hasVoted(voteRestrictions, PresentPrecedence(ret.request), ret.domain)

\* C19 amended: the client IP used for voting is the first comma-separated
\* element (trimmed) of X-Forwarded-For when that header is present and not
\* empty; otherwise X-Real-IP when present and not empty; otherwise X-Client-IP
\* when present and not empty; otherwise the raw connection address, or
\* 'unknown' when the connection has none. That value is the one the request
\* passes to hasVoted and, when it records a vote, to recordVote.
C19_ClientIpByNonEmptyHeader ==
    /\ \A r \in Requests :
          req[r].pc = "lookup" /\ "request" \in DOMAIN req[r] =>
              /\ req[r].ip = NonEmptyPrecedence(req[r].request)
              /\ ~hasVoted(voteRestrictions, NonEmptyPrecedence(req[r].request), req[r].domain)
    /\ ret.op = "upvote" /\ "request" \in DOMAIN ret /\ ret.status = 201 =>
          hasVoted(voteRestrictions, NonEmptyPrecedence(ret.request), ret.domain)

C19_Witness ==
    /\ ret.op = "upvote"
    /\ "request" \in DOMAIN ret
    /\ ret.success
    /\ ret.request.forwarded = Header(<<" ", "10.0.0.1">>)
    /\ ret.request.realIp.present
    /\ hasVoted(voteRestrictions, "10.0.0.1", ret.domain)
    /\ Len(voteRestrictions) = 2

---------------------------------------------------------------------------
(* Claims about the order of an upvote's steps (Spec) *)

---------------------------------------------------------------------------
(* Claims about the record parser (SpecParse) *)

\* the ';'-separated segments of a record, blanks around them left out
SegmentsOf(record) == SelectSeq(TrimAll(SplitOn(Trim(TextOf(record)), ";")), NonEmpty)

HasEquals(seg) == \E i \in DOMAIN seg : seg[i] = "="
FirstEquals(seg) == CHOOSE i \in DOMAIN seg : seg[i] = "=" /\ \A k \in 1..(i - 1) : seg[k] # "="

\* the tag before the first '=' and the value, everything after it
TagOf(seg) == Join(ToLowerCase(Trim(SubSeq(seg, 1, FirstEquals(seg) - 1))))
ValuePieces(seg) == Trim(SubSeq(seg, FirstEquals(seg) + 1, Len(seg)))
TagValue(seg) == Join(ValuePieces(seg))

\* the segments of a record that carry the tag, in order
Tagged(record, tags) ==
    LET segs == SegmentsOf(record)
        Carries(seg) == HasEquals(seg) /\ TagOf(seg) \in tags
    IN SelectSeq(segs, Carries)

ParseCalled == ret.op = "parseDmarcRecord"

\* C22: parseDmarcRecord throws, returning no policy at all, whenever the
\* record is empty or not a string, does not start with 'v=DMARC1' after
\* trimming, carries a v tag with a value other than DMARC1, a p or sp value
\* outside {none, quarantine, reject}, or an adkim/aspf value outside
\* {r, s, relaxed, strict}, at whatever position the tag stands.
C22_InvalidRecordThrows ==
    ParseCalled =>
        LET record == ret.record
            Bad(tags, allowed) ==
                \E i \in DOMAIN Tagged(record, tags) :
                    TagValue(Tagged(record, tags)[i]) \notin allowed
        IN  \/ ~IsString(record)
            \/ TextOf(record) = <<>>
            \/ ~StartsWithVersion(Trim(TextOf(record)))
            \/ Bad({"v"}, {"DMARC1"})
            \/ Bad({"p", "sp"}, PolicyValues)
            \/ Bad({"adkim", "aspf"}, AlignmentValues)
            => ~ret.result.ok /\ "policy" \notin DOMAIN ret.result

\* whether the pieces spell an integer of [0,100]
IntegerInRange(v) ==
    /\ v # <<>>
    /\ \A i \in DOMAIN v : IsDigit(v[i])
    /\ NumberOf(v) <= 100

\* C23: parseDmarcRecord fails unless the pct value is an integer in [0,100]
\* ('150', '-1', 'abc', '50abc' and '12.5' are rejected), and an accepted value
\* is stored in percentage as exactly that integer, 0 and 100 included.
C23_PctIsIntegerInRange ==
    ParseCalled /\ IsString(ret.record) =>
        LET pcts == Tagged(ret.record, {"pct"}) IN
        /\ (\E i \in DOMAIN pcts : ~IntegerInRange(ValuePieces(pcts[i]))) => ~ret.result.ok
        /\ ret.result.ok /\ pcts # <<>> =>
              /\ "percentage" \in DOMAIN ret.result.policy
              /\ ret.result.policy["percentage"] = NumberOf(ValuePieces(pcts[Len(pcts)]))

\* the record without its segments that contain no '='
WithoutBareSegments(record) ==
    LET segs == SelectSeq(SegmentsOf(record), HasEquals) IN
    IF segs = <<>> THEN Text(<<>>) ELSE Text(JoinSegments(segs))

SamePolicy(a, b) ==
    /\ a.ok = b.ok
    /\ a.ok => /\ DOMAIN a.policy = DOMAIN b.policy
               /\ \A f \in DOMAIN a.policy \ {"rawRecord"} : a.policy[f] = b.policy[f]

\* C24: for every ';'-separated segment the parser splits on the first '='
\* only: the tag's value is everything after the first '=' (a value that itself
\* contains '=' is kept whole), so a parsed policy's p value and reporting
\* addresses are those whole values; and a segment that contains no '=' is
\* skipped without failing the parse.
C24_SplitOnFirstEquals ==
    ParseCalled /\ IsString(ret.record) /\ StartsWithVersion(Trim(TextOf(ret.record))) =>
        LET record == ret.record
            ps == Tagged(record, {"p"})
            reports == Tagged(record, {"rua", "ruf"}) IN
        /\ SamePolicy(ret.result, parseDmarcRecord(WithoutBareSegments(record)))
        /\ ret.result.ok =>
              /\ ps # <<>> => ret.result.policy["policy"] = TagValue(ps[Len(ps)])
              /\ \A i \in DOMAIN reports :
                    \A address \in Range(AddressesOf(ValuePieces(reports[i]))) :
                        address \in Range(ret.result.policy["reportingAddresses"])

---------------------------------------------------------------------------
(* Claims about the policy evaluator (SpecEvaluate) *)

EvaluateCalled == ret.op = "evaluatePolicy"

IssuesOfType(issues, type) == {i \in DOMAIN issues : issues[i].type = type}

InvalidAddresses(policy) ==
    IF Has(policy, "reportingAddresses")
    THEN LET Invalid(address) == ~isValidEmailFormat(address) IN
         SelectSeq(policy["reportingAddresses"], Invalid)
    ELSE <<>>

\* the types the claim's order of checks gives for a policy
TypesInOrder(policy) ==
    (IF policy["policy"] = "none" THEN <<"weak_policy">> ELSE <<>>)
    \o (IF Has(policy, "percentage") /\ policy["percentage"] < 100
        THEN <<"configuration_issue">> ELSE <<>>)
    \o (IF ~Has(policy, "reportingAddresses") \/ policy["reportingAddresses"] = <<>>
        THEN <<"configuration_issue">> ELSE <<>>)
    \o (IF ~Has(policy, "subdomainPolicy") THEN <<"configuration_issue">>
        ELSE IF policy["subdomainPolicy"] = "none" /\ policy["policy"] # "none"
        THEN <<"weak_policy">> ELSE <<>>)
    \o (IF Has(policy, "alignment") /\ policy["alignment"] = DefaultAlignment
        THEN <<"alignment_issue">> ELSE <<>>)
    \o [i \in DOMAIN InvalidAddresses(policy) |-> "syntax_error"]

\* C25: for every policy, evaluatePolicy emits its issues in one fixed relative
\* order: weak_policy for policy=none, configuration_issue for percentage < 100,
\* configuration_issue for absent or empty reportingAddresses, the
\* subdomain-policy issue, alignment_issue, then one syntax_error per invalid
\* reporting address in declaration order.
C25_IssuesInFixedOrder ==
    EvaluateCalled =>
        LET issues == ret.issues
            invalid == InvalidAddresses(ret.policy)
            errorsFrom == Len(issues) - Len(invalid) IN
        /\ [i \in DOMAIN issues |-> issues[i].type] = TypesInOrder(ret.policy)
        /\ \A i \in DOMAIN invalid :
              issues[errorsFrom + i].message = AddressMessage(invalid[i])

C25_Witness ==
    /\ EvaluateCalled
    /\ Len(ret.issues) = 6
    /\ Len(InvalidAddresses(ret.policy)) = 2
    /\ InvalidAddresses(ret.policy)[1] # InvalidAddresses(ret.policy)[2]
    /\ Has(ret.policy, "percentage")

\* C26: for every policy with policy = none, whatever subdomainPolicy is
\* (absent, none, quarantine or reject), evaluatePolicy's output contains
\* exactly one issue of type weak_policy, and it has severity warning.
C26_OneWeakPolicyIssueForNone ==
    EvaluateCalled /\ ret.policy["policy"] = "none" =>
        /\ Cardinality(IssuesOfType(ret.issues, "weak_policy")) = 1
        /\ \A i \in IssuesOfType(ret.issues, "weak_policy") :
              ret.issues[i].severity = "warning"

C26_Witness ==
    /\ EvaluateCalled
    /\ ret.policy["policy"] = "none"
    /\ Has(ret.policy, "subdomainPolicy")
    /\ ret.policy["subdomainPolicy"] = "none"
    /\ IssuesOfType(ret.issues, "weak_policy") = {1}

\* C27: for any policy, evaluatePolicy never emits the same issue twice for one
\* cause: its output contains no two issues with equal type and equal message,
\* also when reportingAddresses contains duplicated entries.
C27_NoIssueEmittedTwice ==
    EvaluateCalled =>
        \A i, j \in DOMAIN ret.issues :
            i < j => ~(/\ ret.issues[i].type = ret.issues[j].type
                       /\ ret.issues[i].message = ret.issues[j].message)

\* the issues that name a coverage percentage
CoverageIssues(issues) ==
    {i \in IssuesOfType(issues, "configuration_issue") :
        \E n \in 0..100 : issues[i].message = PercentageMessage(n)}

\* C28: for every policy whose percentage is defined and below 100 (0
\* included), evaluatePolicy's output contains exactly one configuration_issue
\* of severity info that names the coverage percentage; when percentage is
\* undefined or equals 100, no such issue is emitted.
C28_CoverageIssueBelowHundred ==
    EvaluateCalled =>
        LET coverage == CoverageIssues(ret.issues) IN
        IF Has(ret.policy, "percentage") /\ ret.policy["percentage"] < 100
        THEN /\ Cardinality(coverage) = 1
             /\ \A i \in coverage :
                   /\ ret.issues[i].severity = "info"
                   /\ ret.issues[i].message = PercentageMessage(ret.policy["percentage"])
        ELSE coverage = {}

C28_Witness ==
    /\ EvaluateCalled
    /\ Has(ret.policy, "percentage")
    /\ ret.policy["percentage"] = 0
    /\ CoverageIssues(ret.issues) # {}

---------------------------------------------------------------------------
(* Claims about the validator and the DNS service (SpecDns) *)

\* C29: validateDomain(domain) never throws for a business outcome: for a
\* well-formed domain that has no DMARC record it returns a ValidationResult
\* with dmarcRecord = null, isValid = false and issues consisting of one
\* missing_record issue of severity error; it throws only for a malformed
\* domain or a DNS transport failure.
C29_MissingRecordIsAResult ==
    ret.op = "validateDomain" =>
        /\ validateDomainFormat(ret.domain) /\ LookupResult(ret.dns) = NotFound =>
              /\ ret.result.ok
              /\ ret.result.value.dmarcRecord = JsNull
              /\ ret.result.value.isValid = FALSE
              /\ Len(ret.result.value.issues) = 1
              /\ ret.result.value.issues[1].type = "missing_record"
              /\ ret.result.value.issues[1].severity = "error"
        /\ ~ret.result.ok =>
              ~validateDomainFormat(ret.domain) \/ ~LookupResult(ret.dns).ok

\* C30: lookupDmarcRecord rejects with an 'Invalid domain format' error for
\* every domain that validateDomainFormat rejects, and it does so before any
\* DNS query is issued: no resolveTxt call ever happens for such a domain.
C30_InvalidDomainNeverQueried ==
    /\ ret.op = "lookupDmarcRecord" /\ ~validateDomainFormat(ret.domain) =>
          /\ ~ret.result.ok
          /\ ret.result.error = "Invalid domain format"
          /\ ~ret.resolved
    /\ \A r \in Requests :
          req[r].pc = "resolving" => validateDomainFormat(req[r].domain)

C30_Witness ==
    /\ ret.op = "lookupDmarcRecord"
    /\ ret.domain = Text(<<"x64", ".", "com">>)
    /\ ~ret.result.ok
    /\ ~ret.resolved

---------------------------------------------------------------------------
(* Claims about the Home page (SpecHome) *)

\* C31: when the POST /api/domains/validate call has failed (a network error
\* or a response that is not 2xx), handleDomainSubmit has signalled a failure
\* to its caller, and the page shows no ValidationResult for the submitted
\* domain other than one the server sent
C31_FailedValidationShowsNoResult ==
    (ret.op = "handleDomainSubmit" /\ ret.response # "ok") =>
        /\ ret.threw
        /\ \A i \in DOMAIN ui.validationResult :
              ui.validationResult[i].domain = ret.domain =>
                  ui.validationResult[i] \in ui.received

---------------------------------------------------------------------------
(* Claims about the submission form (SpecForm) *)

HasDot(v) == \E i \in DOMAIN v : v[i] = "."

\* C32: handleSubmit calls onSubmit only with a valid domain name (one the DNS
\* service's format check accepts); for a text that, trimmed and lower-cased,
\* is not empty and has no dot, it shows the 'Please enter a valid domain
\* name' error and does not call onSubmit
C32_SubmitsOnlyValidDomainNames ==
    ret.op = "handleSubmit" =>
        /\ ret.called => validateDomainFormat(Text(ret.trimmed))
        /\ (ret.trimmed # <<>> /\ ~HasDot(ret.trimmed)) =>
              /\ ~ret.called
              /\ ui.error = "Please enter a valid domain name (e.g., example.com)"

---------------------------------------------------------------------------
(* Claims about failed and refused upvotes (Spec) *)

\* C33: when the storage increment of an upvote request fails, the request is
\* answered with an error, and unless another request of the same pair has
\* been counted, hasVoted(ip, domain) is false afterwards, so that the pair
\* can vote again
C33_FailedIncrementLeavesNoVote ==
    [][\A r \in Requests :
          (req[r].pc = "incrementing" /\ req'[r].pc = "idle" /\ ~ret'.success) =>
              /\ ret'.status >= 400
              /\ accepted'[<<req[r].ip, req[r].domain>>] = 0 =>
                    ~hasVoted(voteRestrictions', req[r].ip, req[r].domain)]_vars

\* C39: an upvote is answered success:true, and the stored count raised, only
\* for a domain in the registry: one whose stored document has isValid false
C39_OnlyRegistryDomainsAreUpvoted ==
    [][\A r \in Requests :
          (req[r].pc = "incrementing" /\ req'[r].pc = "idle" /\ ret'.success) =>
              /\ req[r].domain \in DOMAIN storage
              /\ ~storage[req[r].domain].isValid]_vars

---------------------------------------------------------------------------
(* Claims about the cache beside the store (SpecLookup) *)

\* C34: whenever no call of the registry service is in flight, every live
\* cache entry of a domain is the result derived from the domain's stored
\* document, and a domain without a document has no live cache entry
C34_CacheAgreesWithStorage ==
    (\A r \in Requests : req[r].pc = "idle") =>
        \A d \in LookupDomains :
            Live(cache, cacheKey(d), now) =>
                /\ d \in DOMAIN storage
                /\ cache[cacheKey(d)].data = convertDocumentToResult(storage[d])

---------------------------------------------------------------------------
(* Claims about stored upvote counts (SpecStoring) *)

\* C35: while a domain's document exists its stored upvote count never
\* decreases: no step of a storeDomainResult or incrementUpvotes call, in any
\* interleaving, leaves an existing document with fewer upvotes than it had
C35_UpvotesNeverDecrease ==
    [][\A d \in DOMAIN storage \cap DOMAIN storage' :
          storage'[d].upvotes >= storage[d].upvotes]_vars

---------------------------------------------------------------------------
(* Claims about the registry view (SpecRegistryUi) *)

\* the stored form of a result's issues: their severities
Severities(issues) == [i \in DOMAIN issues |-> issues[i].severity]

\* C36: after a recheck has answered with a result that is not valid, the
\* status shown for the domain is the one determineDmarcStatus derives from the
\* same result: missing without a record, invalid with an issue of severity
\* error, weak otherwise
C36_UiStatusIsBackendStatus ==
    (ret.op = "handleRecheck" /\ ~ret.result.isValid) =>
        \A i \in DOMAIN ui.domains :
            ui.domains[i].domain = ret.domain =>
                ui.domains[i].dmarcStatus =
                    determineDmarcStatus([dmarcRecord |-> ret.result.dmarcRecord,
                                          issues |-> Severities(ret.result.issues)])

\* C37: once the list is loaded and while no upvote or recheck is in flight,
\* the displayed list is ordered by upvotes descending and, among equal
\* upvotes, by lastChecked descending
C37_DisplayedListIsOrdered ==
    (ui.loaded /\ ui.votingDomain = Nothing /\ ui.recheckingDomain = Nothing) =>
        \A i, j \in DOMAIN ui.domains :
            i < j => registryCompare(ui.domains[i], ui.domains[j]) <= 0

\* C38: an upvote click raises the displayed count of the domain by one only
\* if the server answered success:true; after success:false or a failed
\* request the displayed count is what it was
C38_CountRisesOnlyOnAcceptedVote ==
    (ret.op = "handleUpvote" /\ ~ret.accepted) => ret.after = ret.before

====
